---- MODULE Spec2Model ----
(***************************************************************************)
(* Model of the pharmacy backend: the session-cookie authentication gate,  *)
(* login / logout, employee registration and deletion, and the brand,      *)
(* category, product, purchase-order and sale routes, as request handlers  *)
(* running concurrently against one relational store.                      *)
(*                                                                         *)
(* A string is a tuple of one-character strings, so that lower-casing,     *)
(* stripping and length checks are computed rather than assumed.  A JSON   *)
(* field that is absent from a request body is the value Absent.           *)
(***************************************************************************)
EXTENDS Integers, Sequences, FiniteSets, TLC

\* ------------------------------------------------------------------ bounds

\* Requests received in one run.
MaxRequests == 4
\* Requests received in one run of the brand-registration races.
MaxRaceRequests == 5
\* Employee ids, session tokens and brand ids ever generated in one run.
MaxEmployees == 2
MaxTokens == 2
MaxBrands == 2
\* Category, product, purchase-order and sale ids ever generated in one run,
\* and the requests received in one run of the catalogue routes.
MaxRows == 2
MaxCatalogueRequests == 3

\* ------------------------------------------------------------- strings

Absent == <<"<absent>">>

UpperChars == {"R", "A", "E"}
DigitChars == {"1", "2"}

LowerChar(c) ==
  CASE c = "R" -> "r"
    [] c = "A" -> "a"
    [] c = "E" -> "e"
    [] OTHER -> c

\* str.lower()
Lower(s) == [i \in 1..Len(s) |-> LowerChar(s[i])]

RECURSIVE LStrip(_)
LStrip(s) == IF s # <<>> /\ Head(s) = " " THEN LStrip(Tail(s)) ELSE s

RECURSIVE RStrip(_)
RStrip(s) ==
  IF s # <<>> /\ s[Len(s)] = " " THEN RStrip(SubSeq(s, 1, Len(s) - 1)) ELSE s

\* str.strip(), what StringConstraints(strip_whitespace=True) applies
Strip(s) == RStrip(LStrip(s))

Repeat(c, n) == [i \in 1..n |-> c]

\* A value Python treats as true: neither None (absent) nor "".
Truthy(s) == s # Absent /\ s # <<>>

\* ------------------------------------------------- request-data schemas

\* EmployeeLogin.username: min_length / max_length
LoginUsernameMin == 3
LoginUsernameMax == 100
\* EmployeeLogin.password: min_length / max_length
LoginPasswordMin == 8
LoginPasswordMax == 64
\* EmployeeRegister.username and .password: min_length / max_length
RegisterUsernameMin == 3
RegisterUsernameMax == 200
RegisterPasswordMin == 8
RegisterPasswordMax == 200
\* BrandRegister.name / BrandUpdate.name: min_length / max_length
BrandNameMin == 3
BrandNameMax == 200

\* EmailStr: one "@" with a local part before it and a dotted domain after it.
IsEmail(s) ==
  /\ s # Absent
  /\ Cardinality({i \in 1..Len(s) : s[i] = "@"}) = 1
  /\ \E i \in 2..Len(s) :
       /\ s[i] = "@"
       /\ \E j \in (i + 2)..(Len(s) - 1) : s[j] = "."

\* check_complexity: any(c.isupper()) and any(c.isdigit())
check_complexity(v) ==
  /\ \E i \in 1..Len(v) : v[i] \in UpperChars
  /\ \E i \in 1..Len(v) : v[i] \in DigitChars

\* A constrained string field: stripped, then its length checked.
StrFieldOk(v, lo, hi) ==
  /\ v # Absent
  /\ Len(Strip(v)) >= lo
  /\ Len(Strip(v)) <= hi

\* EmployeeLogin(**request_data) raises no ValidationError
EmployeeLoginValid(body) ==
  /\ body.email = Absent \/ IsEmail(body.email)
  /\ body.username = Absent
       \/ StrFieldOk(body.username, LoginUsernameMin, LoginUsernameMax)
  /\ StrFieldOk(body.password, LoginPasswordMin, LoginPasswordMax)
  /\ check_complexity(Strip(body.password))

\* EmployeeLogin(...).model_dump(exclude_unset=True): the fields as validated
EmployeeLogin(body) ==
  [email    |-> IF body.email = Absent THEN Absent ELSE Lower(body.email),
   username |-> IF body.username = Absent THEN Absent
                ELSE Lower(Strip(body.username)),
   password |-> Strip(body.password)]

\* A validate_login_request_data that rejects nothing.
validate_login_unchecked(body) == [ok |-> TRUE, data |-> EmployeeLogin(body)]

\* LoginAuth.validate_login_request_data: [ok, data]
validate_login_request_data(body) ==
  IF ~(Truthy(body.email) \/ Truthy(body.username))
  THEN [ok |-> FALSE, data |-> body]
  ELSE IF ~EmployeeLoginValid(body)
  THEN [ok |-> FALSE, data |-> body]
  ELSE [ok |-> TRUE, data |-> EmployeeLogin(body)]

\* EmployeeRegister(**request_data) raises no ValidationError (the name,
\* address and role fields are taken as valid)
EmployeeRegisterValid(body) ==
  /\ StrFieldOk(body.username, RegisterUsernameMin, RegisterUsernameMax)
  /\ IsEmail(body.email)
  /\ StrFieldOk(body.password, RegisterPasswordMin, RegisterPasswordMax)
  /\ check_complexity(Strip(body.password))

EmployeeRegister(body) ==
  [username |-> Lower(Strip(body.username)),
   email    |-> Lower(body.email),
   password |-> Strip(body.password),
   is_admin |-> body.is_admin]

\* BrandRegister(**request_data) raises no ValidationError
BrandRegisterValid(body) ==
  StrFieldOk(body.name, BrandNameMin, BrandNameMax)

\* BrandUpdate(**request_data) raises no ValidationError
BrandUpdateValid(body) ==
  body.name = Absent \/ StrFieldOk(body.name, BrandNameMin, BrandNameMax)

\* BrandUpdate(...).model_dump(exclude=None): every field of the schema,
\* set or not, is a key of the dump.
BrandUpdateDump(body) == DOMAIN body

\* BrandUpdate(...).model_dump(exclude_unset=True): the fields the body holds
BrandUpdateSet(body) ==
  {f \in {"name"} : body.name # Absent}
    \cup {f \in {"is_active"} : body.is_active # "absent"}

\* validate_request_data(BrandUpdate): 400 when BrandUpdate raises or the
\* dump of all fields is empty, else 0
validate_brand_update(body) ==
  IF ~BrandUpdateValid(body) THEN 400
  ELSE IF BrandUpdateDump(body) = {} THEN 400
  ELSE 0

\* to_lower=True, strip_whitespace=True
BrandName(v) == Lower(Strip(v))

\* flask_bcrypt: generate_password_hash / check_password_hash
BcryptHash(p) == <<"$2b$", p>>
check_password_hash(h, p) == h = BcryptHash(p)

\* ---------------------------------------------------------- sample inputs

UserRRo == <<"R", "R", "o">>
UserAmy == <<"a", "m", "y">>
UserZed == <<"z", "e", "d">>
EmailR == <<"R", "@", "g", ".", "c">>
EmailA == <<"a", "@", "g", ".", "c">>
PwR == <<"R", "a", "n", "g", "e", "r", "1", "2">>
PwA == <<"A", "m", "y", "1", "2", "x", "y", "z">>

\* POST /register bodies
RegisterBodies ==
  { [username |-> UserRRo, email |-> EmailR, password |-> PwR, is_admin |-> TRUE],
    [username |-> UserAmy, email |-> EmailA, password |-> PwA, is_admin |-> FALSE],
    [username |-> Lower(UserRRo), email |-> EmailA, password |-> PwA,
     is_admin |-> FALSE] }

\* POST /auth_session/login bodies
LoginBodies ==
  { [email |-> Absent, username |-> UserRRo, password |-> PwR],
    [email |-> Absent, username |-> UserAmy, password |-> PwA],
    [email |-> EmailR, username |-> Absent, password |-> PwR],
    [email |-> EmailR, username |-> UserAmy, password |-> PwR],
    [email |-> EmailA, username |-> UserRRo, password |-> PwR],
    [email |-> Absent, username |-> UserRRo, password |-> PwA],
    [email |-> Absent, username |-> UserZed, password |-> PwR],
    [email |-> Absent, username |-> Absent, password |-> PwR],
    [email |-> <<>>, username |-> <<>>, password |-> PwR],
    [email |-> Absent, username |-> UserRRo, password |-> <<"R", "a", "1">>],
    [email |-> Absent, username |-> UserRRo, password |-> Lower(PwR)],
    [email |-> Absent, username |-> UserRRo,
     password |-> <<"R", "a", "n", "g", "e", "r", "x", "y">>],
    [email |-> Absent, username |-> UserRRo,
     password |-> PwR \o Repeat("x", LoginPasswordMax - Len(PwR) + 1)],
    [email |-> Absent, username |-> UserRRo,
     password |-> PwR \o Repeat(" ", LoginPasswordMax - Len(PwR) + 1)],
    [email |-> Absent, username |-> UserRRo, password |-> Absent] }

\* POST /brands and PUT /brands/<id> bodies; is_active is "absent", "true"
\* or "false"
BrandNames == {<<"E", "m", "z">>, <<"e", "m", "z", " ">>, <<"f", "o", "o">>}
BrandRegisterBodies ==
  [name : BrandNames \cup {<<"e", "m">>}, is_active : {"absent", "false"}]
BrandUpdateBodies ==
  [name : {Absent, <<"E", "m", "z">>, <<"f", "o", "o">>},
   is_active : {"absent", "false"}]

\* Registrations in mixed case, one with a password longer than the login
\* schema allows, and logins with each case variant of their usernames and
\* emails.
UserAmE == <<"A", "m", "E">>
PwLong == PwR \o Repeat("x", LoginPasswordMax - Len(PwR) + 1)
CaseRegisterBodies ==
  { [username |-> UserRRo, email |-> EmailR, password |-> PwR, is_admin |-> TRUE],
    [username |-> UserAmE, email |-> EmailA, password |-> PwLong,
     is_admin |-> FALSE] }
CaseLoginBodies ==
  UNION { { [email |-> Absent, username |-> b.username, password |-> b.password],
            [email |-> Absent, username |-> Lower(b.username),
             password |-> b.password],
            [email |-> b.email, username |-> Absent, password |-> b.password],
            [email |-> Lower(b.email), username |-> Absent,
             password |-> b.password] } : b \in CaseRegisterBodies }

\* --------------------------------------------------------------- state

Slots == {"w1", "w2"}
Before(w, r) == w = "w1" /\ r = "w2"

NoCookie == <<"none", 0>>
EmptyCookie == <<"", 0>>
ForgedCookie == <<"forged", 0>>
SessionId(n) == <<"sid", n>>

NoEmployee ==
  [id |-> 0, username |-> Absent, email |-> Absent, password |-> Absent,
   is_admin |-> FALSE]

Routes ==
  {"register", "login", "logout", "register_brand", "get_brand",
   "update_brand", "delete_brand"}

VARIABLES
  employees,    \* the employees table: records [id, username, email, password, is_admin]
  sessions,     \* the employee-session table: records [id, employee_id]
  brands,       \* the brands table: records [id, name, is_active, employee_id]
  nextId,       \* the next generated id per table: [employee, token, brand]
  nreq,         \* requests received so far
  req,          \* per slot: the request being served and its response; ops are
                \* the collaborator calls it made, raced whether another
                \* request was in flight while it was served, seen the brand
                \* names stored when a brand registration arrived (in its
                \* response: its own name, if it was among them)
  lastLogin,    \* per employee id: the token of its latest 201 login, NoCookie
                \* after a logout of that employee or its deletion
  categories,   \* the categories table: records [id, name, description,
                \* employee_id]
  products,     \* the products table, in the order the rows were inserted:
                \* records [id, name, selling_price, category_id, employee_id]
  brand_products,   \* the link table, in insertion order: records
                    \* [brand_id, product_id]
  purchase_orders,  \* records [id, status, brand_id, employee_id]
  sales,        \* records [id, product_id, brand_id, quantity,
                \* unit_selling_price, total_selling_price, employee_id]
  purchase_order_items  \* records [id, purchase_order_id, product_id,
                        \* quantity]

catalogue ==
  <<categories, products, brand_products, purchase_orders, sales,
    purchase_order_items>>
vars ==
  <<employees, sessions, brands, nextId, nreq, req, lastLogin, categories,
    products, brand_products, purchase_orders, sales, purchase_order_items>>
store == <<employees, sessions, brands>>

IdleRequest ==
  [pc |-> "idle", route |-> "none", cookie |-> NoCookie, g |-> NoEmployee,
   employee |-> NoEmployee, token |-> NoCookie, status |-> 0, ops |-> {},
   name |-> Absent, seen |-> {}, raced |-> FALSE, data |-> <<>>]

Init ==
  /\ employees = {}
  /\ sessions = {}
  /\ brands = {}
  /\ nextId = [employee |-> 1, token |-> 1, brand |-> 1, category |-> 1,
               product |-> 1, order |-> 1, sale |-> 1]
  /\ nreq = 0
  /\ req = [r \in Slots |-> IdleRequest]
  /\ lastLogin = [e \in 1..MaxEmployees |-> NoCookie]
  /\ categories = {}
  /\ products = <<>>
  /\ brand_products = <<>>
  /\ purchase_orders = {}
  /\ sales = {}
  /\ purchase_order_items = {}

\* ------------------------------------------------------ paths and the gate

\* A path is the tuple of its segments; a trailing "" is a trailing slash.
RoutePath(route) ==
  CASE route = "register" -> <<"api", "v1", "register">>
    [] route = "login" -> <<"api", "v1", "auth_session", "login">>
    [] route = "logout" -> <<"api", "v1", "auth_session", "logout">>
    [] route = "register_brand" -> <<"api", "v1", "brands">>
    [] route \in {"get_brand", "update_brand", "delete_brand"}
         -> <<"api", "v1", "brands", "<brand_id>">>
    [] OTHER -> <<"api", "v1", route>>

\* The exclusion list check_authentication passes to require_auth.
ExcludedPaths ==
  { <<"api", "v1", "register", "">>, <<"api", "v1", "auth_session", "login", "">> }

\* A require_auth that excludes every path under an excluded one.
require_auth_prefix(path, excluded_paths) ==
  IF path = <<>> \/ excluded_paths = {}
  THEN TRUE
  ELSE ~\E x \in excluded_paths :
          /\ Len(x) - 1 <= Len(path)
          /\ \A i \in 1..(Len(x) - 1) : path[i] = x[i]

\* BaseAuth.require_auth
require_auth(path, excluded_paths) ==
  IF path = <<>> \/ excluded_paths = {}
  THEN TRUE
  ELSE LET p == IF path[Len(path)] # "" THEN Append(path, "") ELSE path
       IN  IF p \in excluded_paths THEN FALSE ELSE TRUE

\* BaseAuth.session_cookie: request.cookies.get(SESSION_NAME)
session_cookie(cookie) == cookie

\* SessionDBAuth.current_employee: the employee owning the session whose id
\* is the cookie's token, NoEmployee when there is none.
current_employee(cookie, sess, emps) ==
  LET owners == {e \in emps : \E s \in sess : s.id = cookie /\ s.employee_id = e.id}
  IN  IF owners = {} THEN NoEmployee ELSE CHOOSE e \in owners : TRUE

\* A check_authentication that does not look at what current_employee found.
check_authentication_unresolved(path, cookie, sess, emps) ==
  IF ~require_auth(path, ExcludedPaths)
  THEN [abort |-> 0, employee |-> NoEmployee]
  ELSE IF session_cookie(cookie) \in {NoCookie, EmptyCookie}
  THEN [abort |-> 401, employee |-> NoEmployee]
  ELSE [abort |-> 0, employee |-> current_employee(cookie, sess, emps)]

\* check_authentication: [abort, employee]; abort = 0 lets the request
\* through, with g.current_employee = employee when the path is protected.
check_authentication(path, cookie, sess, emps) ==
  IF ~require_auth(path, ExcludedPaths)
  THEN [abort |-> 0, employee |-> NoEmployee]
  ELSE IF session_cookie(cookie) \in {NoCookie, EmptyCookie}
  THEN [abort |-> 401, employee |-> NoEmployee]
  ELSE LET employee == current_employee(cookie, sess, emps)
       IN  IF employee = NoEmployee
           THEN [abort |-> 401, employee |-> NoEmployee]
           ELSE [abort |-> 0, employee |-> employee]

\* authorization.admin_only: 403 unless g.current_employee.is_admin
admin_only(employee) == IF employee.is_admin THEN 0 ELSE 403

\* ------------------------------------------------------------ the store

Ids(table) == {x.id : x \in table}

\* A search that prefers the username to the email.
search_employee_username_first(emps, email, username) ==
  IF Truthy(username)
  THEN {e \in emps : e.username = username}
  ELSE {e \in emps : e.email = email}

\* DBStorage.search_employee_by_email_username: the matching rows
search_employee_by_email_username(emps, email, username) ==
  IF Truthy(email)
  THEN {e \in emps : e.email = email}
  ELSE {e \in emps : e.username = username}

\* check_email_username_exists: 409 or 0.  The username is handed to the
\* search as its first argument, the email.
check_email_username_exists(emps, data) ==
  IF search_employee_by_email_username(emps, data.email, Absent) # {}
  THEN 409
  ELSE IF search_employee_by_email_username(emps, data.username, Absent) # {}
  THEN 409
  ELSE 0

\* An employees table with no unique constraints.
EmployeeNotUnique(emps, row) == FALSE

\* Employee.username and Employee.email are unique.
EmployeeUniqueViolation(emps, row) ==
  \E e \in emps : e.username = row.username \/ e.email = row.email

\* A brands table with no unique constraint on the name.
BrandNameNotUnique(table, row) == FALSE

\* Brand.name is unique.
BrandUniqueViolation(table, row) ==
  \E b \in table : b.id # row.id /\ b.name = row.name

\* A save that commits without the unique constraint.
save_brand_unconstrained(table, emps, row) ==
  IF row.employee_id # 0 /\ row.employee_id \notin Ids(emps)
  THEN [status |-> 500, brands |-> table]
  ELSE [status |-> 0,
        brands |-> {b \in table : b.id # row.id} \cup {row}]

\* A save whose failed commit is not rolled back: the row stays written.
save_brand_unrolled(table, emps, row) ==
  IF BrandUniqueViolation(table, row)
  THEN [status |-> 409, brands |-> {b \in table : b.id # row.id} \cup {row}]
  ELSE IF row.employee_id # 0 /\ row.employee_id \notin Ids(emps)
  THEN [status |-> 500, brands |-> {b \in table : b.id # row.id} \cup {row}]
  ELSE [status |-> 0,
        brands |-> {b \in table : b.id # row.id} \cup {row}]

\* DatabaseOp.save of a brand row (new, or replacing the row of the same id):
\* [status, brands]; status 0 is a commit.
save_brand(table, emps, row) ==
  IF BrandUniqueViolation(table, row)
  THEN [status |-> 409, brands |-> table]
  ELSE IF row.employee_id # 0 /\ row.employee_id \notin Ids(emps)
  THEN [status |-> 500, brands |-> table]
  ELSE [status |-> 0,
        brands |-> {b \in table : b.id # row.id} \cup {row}]

\* ------------------------------------------------------------- requests

Cookies ==
  {NoCookie, EmptyCookie, ForgedCookie}
    \cup {SessionId(n) : n \in 1..(nextId.token - 1)}

\* The response is sent: the worker keeps the route and the status.
Done(q, status) ==
  [IdleRequest EXCEPT !.pc = "done", !.route = q.route, !.status = status,
                      !.ops = q.ops, !.raced = q.raced]

\* A request for `route` arrives at a free worker and
\* app.before_request(check_authentication) runs on it.
Gate(r, route, slash, cookie) ==
  LET path == IF slash THEN Append(RoutePath(route), "") ELSE RoutePath(route)
      c == check_authentication(path, cookie, sessions, employees)
      busy == {w \in Slots : req[w].pc \notin {"idle", "done"}}
      q == [IdleRequest EXCEPT !.route = route, !.cookie = cookie,
                               !.seen = IF route = "register_brand"
                                        THEN {b.name : b \in brands} ELSE {},
                               !.raced = busy # {}]
  IN  /\ req[r].pc \in {"idle", "done"}
      /\ nreq' = nreq + 1
      /\ req' = [w \in Slots |->
                   IF w = r
                   THEN IF c.abort # 0
                        THEN Done(q, c.abort)
                        ELSE [q EXCEPT !.pc = "handler", !.g = c.employee]
                   ELSE IF w \in busy THEN [req[w] EXCEPT !.raced = TRUE]
                   ELSE req[w]]
      /\ UNCHANGED <<employees, sessions, brands, nextId, lastLogin>>
      /\ UNCHANGED catalogue

\* POST /register: validate, check_email_username_exists, save
register_employee(emps, body, id) ==
  IF ~EmployeeRegisterValid(body)
  THEN [status |-> 400, employees |-> emps]
  ELSE LET data == EmployeeRegister(body)
           row == [id |-> id, username |-> data.username, email |-> data.email,
                   password |-> BcryptHash(data.password),
                   is_admin |-> data.is_admin]
       IN  IF check_email_username_exists(emps, data) # 0
           THEN [status |-> 409, employees |-> emps]
           ELSE IF EmployeeUniqueViolation(emps, row)
           THEN [status |-> 409, employees |-> emps]
           ELSE [status |-> 201, employees |-> emps \cup {row}]

RegisterEmployee(r, body) ==
  LET q == req[r]
      out == register_employee(employees, body, nextId.employee)
  IN  /\ q.pc = "handler"
      /\ q.route = "register"
      /\ nextId.employee <= MaxEmployees
      /\ employees' = out.employees
      /\ nextId' = IF out.status = 201
                   THEN [nextId EXCEPT !.employee = @ + 1] ELSE nextId
      /\ req' = [req EXCEPT ![r] = Done(q, out.status)]
      /\ UNCHANGED <<sessions, brands, nreq, lastLogin>>
      /\ UNCHANGED catalogue

\* An employee_session relationship with no delete cascade.
keep_employee_sessions(sess, id) == sess

\* employee.delete(); db.commit(): the relationship employee_session cascades
\* the delete to the employee's sessions; brands.employee_id is SET NULL.
delete_employee_sessions(sess, id) == {s \in sess : s.employee_id # id}

DeleteEmployee(e) ==
  /\ e \in employees
  /\ employees' = employees \ {e}
  /\ sessions' = delete_employee_sessions(sessions, e.id)
  /\ brands' = {IF b.employee_id = e.id THEN [b EXCEPT !.employee_id = 0] ELSE b
                : b \in brands}
  /\ lastLogin' = [lastLogin EXCEPT ![e.id] = NoCookie]
  /\ products' = [i \in DOMAIN products |->
                    IF products[i].employee_id = e.id
                    THEN [products[i] EXCEPT !.employee_id = 0] ELSE products[i]]
  /\ purchase_orders' =
       {IF o.employee_id = e.id THEN [o EXCEPT !.employee_id = 0] ELSE o
          : o \in purchase_orders}
  /\ sales' = {IF s.employee_id = e.id THEN [s EXCEPT !.employee_id = 0] ELSE s
                 : s \in sales}
  /\ categories' = {IF c.employee_id = e.id THEN [c EXCEPT !.employee_id = 0]
                      ELSE c : c \in categories}
  /\ UNCHANGED <<nextId, nreq, req, brand_products>>
  /\ UNCHANGED purchase_order_items

\* ------------------------------------------------------ login and logout

\* LoginAuth.authenticate_employee: [status, employee]; status 0 returns
\* the employee.
authenticate_employee(emps, email, username, password) ==
  IF ~Truthy(email) /\ ~Truthy(username)
  THEN [status |-> 400, employee |-> NoEmployee]
  ELSE IF ~Truthy(password)
  THEN [status |-> 400, employee |-> NoEmployee]
  ELSE LET found == search_employee_by_email_username(emps, email, username)
       IN  IF found = {}
           THEN [status |-> 404, employee |-> NoEmployee]
           ELSE LET employee == CHOOSE e \in found : TRUE
                IN  IF ~check_password_hash(employee.password, password)
                    THEN [status |-> 401, employee |-> NoEmployee]
                    ELSE [status |-> 0, employee |-> employee]

\* The collaborator calls authenticate_employee makes for a given outcome.
AuthenticateOps(status) ==
  CASE status = 400 -> {}
    [] status = 404 -> {"lookup"}
    [] OTHER -> {"lookup", "compare"}

\* validate_login_request_data on each of the login bodies
ValidatedLogin ==
  [b \in LoginBodies \cup CaseLoginBodies |-> validate_login_request_data(b)]

\* login_employee, first part: validate_login_request_data, then
\* authenticate_employee.
LoginAuthenticate(r, body) ==
  LET q == req[r]
      v == ValidatedLogin[body]
  IN  /\ q.pc = "handler"
      /\ q.route = "login"
      /\ IF ~v.ok
         THEN req' = [req EXCEPT ![r] = Done(q, 400)]
         ELSE LET a == authenticate_employee(employees, v.data.email,
                                             v.data.username, v.data.password)
                  ops == q.ops \cup AuthenticateOps(a.status)
              IN  req' = [req EXCEPT ![r] =
                            IF a.status # 0
                            THEN [Done(q, a.status) EXCEPT !.ops = ops]
                            ELSE [q EXCEPT !.pc = "login_session",
                                           !.employee = a.employee,
                                           !.ops = ops]]
      /\ UNCHANGED <<employees, sessions, brands, nextId, nreq, lastLogin>>
      /\ UNCHANGED catalogue

\* SessionDBAuth.get_session: the tokens of the employee's sessions
get_session(sess, employee) == {s.id : s \in {x \in sess : x.employee_id = employee.id}}

\* A login_employee that creates a session whatever get_session returned.
login_always_creates(existing) == [pc |-> "login_create", token |-> NoCookie]

\* login_employee: existing_session = get_employee_session(employee); the
\* token is reused when there is one, else a session is to be created.
login_employee_session(existing) ==
  IF existing # NoCookie
  THEN [pc |-> "login_reply", token |-> existing]
  ELSE [pc |-> "login_create", token |-> NoCookie]

LoginGetSession(r) ==
  LET q == req[r]
      found == get_session(sessions, q.employee)
  IN  /\ q.pc = "login_session"
      /\ \E existing \in (IF found = {} THEN {NoCookie} ELSE found) :
           LET n == login_employee_session(existing)
           IN  req' = [req EXCEPT ![r] =
                         [q EXCEPT !.pc = n.pc, !.token = n.token,
                                   !.ops = @ \cup {"get_session"}]]
      /\ UNCHANGED <<employees, sessions, brands, nextId, nreq, lastLogin>>
      /\ UNCHANGED catalogue

\* SessionDBAuth.create_session: a fresh token persisted for the employee;
\* persisting fails when the employee row is gone.
create_session(sess, emps, employee_id, token) ==
  IF employee_id \in Ids(emps)
  THEN [status |-> 0, sessions |-> sess \cup {[id |-> token, employee_id |-> employee_id]}]
  ELSE [status |-> 500, sessions |-> sess]

LoginCreateSession(r) ==
  LET q == req[r]
      token == SessionId(nextId.token)
      out == create_session(sessions, employees, q.employee.id, token)
  IN  /\ q.pc = "login_create"
      /\ nextId.token <= MaxTokens
      /\ sessions' = out.sessions
      /\ nextId' = IF out.status = 0 THEN [nextId EXCEPT !.token = @ + 1] ELSE nextId
      /\ req' = [req EXCEPT ![r] =
                   IF out.status # 0
                   THEN [Done(q, out.status) EXCEPT !.ops = @ \cup {"create_session"}]
                   ELSE [q EXCEPT !.pc = "login_reply", !.token = token,
                                  !.ops = @ \cup {"create_session"}]]
      /\ UNCHANGED <<employees, brands, nreq, lastLogin>>
      /\ UNCHANGED catalogue

\* login: the 201 response carrying the session cookie and the employee id
LoginReply(r) ==
  LET q == req[r]
  IN  /\ q.pc = "login_reply"
      /\ req' = [req EXCEPT ![r] = Done(q, 201)]
      /\ lastLogin' = [lastLogin EXCEPT ![q.employee.id] = q.token]
      /\ UNCHANGED <<employees, sessions, brands, nextId, nreq>>
      /\ UNCHANGED catalogue

\* SessionDBAuth.destroy_session: delete the session whose id is the
\* cookie's token; [found, sessions]
destroy_session(sess, cookie) ==
  [found |-> \E s \in sess : s.id = cookie,
   sessions |-> {s \in sess : s.id # cookie}]

\* A logout that answers without destroying the session.
logout_keeps_session(sess, cookie) ==
  IF ~\E s \in sess : s.id = cookie
  THEN [status |-> 404, sessions |-> sess]
  ELSE [status |-> 200, sessions |-> sess]

\* logout: 404 unless destroy_session found and removed the session
logout(sess, cookie) ==
  LET d == destroy_session(sess, cookie)
  IN  IF ~d.found
      THEN [status |-> 404, sessions |-> sess]
      ELSE [status |-> 200, sessions |-> d.sessions]

Logout(r) ==
  LET q == req[r]
      out == logout(sessions, q.cookie)
      owners == {s.employee_id : s \in {x \in sessions : x.id = q.cookie}}
  IN  /\ q.pc = "handler"
      /\ q.route = "logout"
      /\ sessions' = out.sessions
      /\ req' = [req EXCEPT ![r] = Done(q, out.status)]
      /\ lastLogin' = [e \in DOMAIN lastLogin |->
                         IF e \in owners THEN NoCookie ELSE lastLogin[e]]
      /\ UNCHANGED <<employees, brands, nextId, nreq>>
      /\ UNCHANGED catalogue

\* ----------------------------------------------------------- brand routes

IsActive(v, default) ==
  CASE v = "true" -> TRUE
    [] v = "false" -> FALSE
    [] OTHER -> default

\* A register_brand without the admin_only decorator.
register_brand_undecorated(table, emps, admin, body, id) ==
  IF ~BrandRegisterValid(body)
  THEN [status |-> 400, brands |-> table]
  ELSE LET row == [id |-> id, name |-> BrandName(body.name),
                   is_active |-> IsActive(body.is_active, TRUE),
                   employee_id |-> admin.id]
           out == save_brand(table, emps, row)
       IN  [status |-> IF out.status = 0 THEN 201 ELSE out.status,
            brands |-> out.brands]

\* register_brand: [status, brands]
register_brand(table, emps, admin, body, id) ==
  IF admin_only(admin) # 0
  THEN [status |-> admin_only(admin), brands |-> table]
  ELSE IF ~BrandRegisterValid(body)
  THEN [status |-> 400, brands |-> table]
  ELSE LET row == [id |-> id, name |-> BrandName(body.name),
                   is_active |-> IsActive(body.is_active, TRUE),
                   employee_id |-> admin.id]
           out == save_brand(table, emps, row)
       IN  [status |-> IF out.status = 0 THEN 201 ELSE out.status,
            brands |-> out.brands]

RegisterBrand(r, body) ==
  LET q == req[r]
      out == register_brand(brands, employees, q.g, body, nextId.brand)
  IN  /\ q.pc = "handler"
      /\ q.route = "register_brand"
      /\ nextId.brand <= MaxBrands
      /\ brands' = out.brands
      /\ nextId' = IF out.status = 201 THEN [nextId EXCEPT !.brand = @ + 1] ELSE nextId
      /\ req' = [req EXCEPT ![r] =
                   IF out.status \in {201, 409, 500}
                   THEN [Done(q, out.status) EXCEPT
                           !.name = BrandName(body.name),
                           !.seen = q.seen \cap {BrandName(body.name)}]
                   ELSE Done(q, out.status)]
      /\ UNCHANGED <<employees, sessions, nreq, lastLogin>>
      /\ UNCHANGED catalogue

\* get_obj(Brand, brand_id): the rows with that id
get_obj(table, id) == {x \in table : x.id = id}

\* get_brand: the status
get_brand(table, admin, brand_id) ==
  IF admin_only(admin) # 0 THEN admin_only(admin)
  ELSE IF get_obj(table, brand_id) = {} THEN 404
  ELSE 200

GetBrand(r, brand_id) ==
  LET q == req[r]
  IN  /\ q.pc = "handler"
      /\ q.route = "get_brand"
      /\ req' = [req EXCEPT ![r] = Done(q, get_brand(brands, q.g, brand_id))]
      /\ UNCHANGED <<employees, sessions, brands, nextId, nreq, lastLogin>>
      /\ UNCHANGED catalogue

\* update_brand: [status, brands].  validate_request_data rejects a body
\* only when BrandUpdate raises; the fields set are those the body holds.
update_brand(table, emps, admin, brand_id, body) ==
  IF admin_only(admin) # 0
  THEN [status |-> admin_only(admin), brands |-> table]
  ELSE IF validate_brand_update(body) # 0
  THEN [status |-> validate_brand_update(body), brands |-> table]
  ELSE IF get_obj(table, brand_id) = {}
  THEN [status |-> 404, brands |-> table]
  ELSE LET brand == CHOOSE b \in get_obj(table, brand_id) : TRUE
           set == BrandUpdateSet(body)
           row == [brand EXCEPT
                     !.name = IF "name" \in set THEN BrandName(body.name) ELSE @,
                     !.is_active = IF "is_active" \in set
                                   THEN IsActive(body.is_active, @) ELSE @]
           out == save_brand(table, emps, row)
       IN  [status |-> IF out.status = 0 THEN 200 ELSE out.status,
            brands |-> out.brands]

UpdateBrand(r, brand_id, body) ==
  LET q == req[r]
      out == update_brand(brands, employees, q.g, brand_id, body)
  IN  /\ q.pc = "handler"
      /\ q.route = "update_brand"
      /\ brands' = out.brands
      /\ req' = [req EXCEPT ![r] = Done(q, out.status)]
      /\ UNCHANGED <<employees, sessions, nextId, nreq, lastLogin>>
      /\ UNCHANGED catalogue

\* delete_brand: [status, brands]
delete_brand(table, admin, brand_id) ==
  IF admin_only(admin) # 0
  THEN [status |-> admin_only(admin), brands |-> table]
  ELSE IF get_obj(table, brand_id) = {}
  THEN [status |-> 404, brands |-> table]
  ELSE [status |-> 200, brands |-> {b \in table : b.id # brand_id}]

DeleteBrand(r, brand_id) ==
  LET q == req[r]
      out == delete_brand(brands, q.g, brand_id)
  IN  /\ q.pc = "handler"
      /\ q.route = "delete_brand"
      /\ brands' = out.brands
      /\ brand_products' =
           IF out.status = 200
           THEN SelectSeq(brand_products, LAMBDA l : l.brand_id # brand_id)
           ELSE brand_products
      /\ purchase_orders' =
           IF out.status = 200
           THEN {IF o.brand_id = brand_id THEN [o EXCEPT !.brand_id = 0] ELSE o
                   : o \in purchase_orders}
           ELSE purchase_orders
      /\ sales' =
           IF out.status = 200
           THEN {IF s.brand_id = brand_id THEN [s EXCEPT !.brand_id = 0] ELSE s
                   : s \in sales}
           ELSE sales
      /\ req' = [req EXCEPT ![r] = Done(q, out.status)]
      /\ UNCHANGED <<employees, sessions, nextId, nreq, lastLogin, categories,
                     products>>
      /\ UNCHANGED purchase_order_items

\* ------------------------------------------------ categories and products

\* CategoryRegister / ProductRegister .name: min_length / max_length
CatalogueNameMin == 3
CatalogueNameMax == 200
\* CategoryRegister.description: min_length / max_length
DescriptionMin == 3
DescriptionMax == 2000
\* An id field of a request body: min_length = max_length
IdLength == 36

\* The id of the n-th row a table was given, as the text a client sends:
\* str(uuid4()), 36 characters.
Uuid(n) == Repeat(<<"1", "2", "3", "4">>[n], IdLength)

\* A number of a JSON body, as its text; "absent" is a missing field.
Numbers == {"-5", "0", "4", "350"}

\* float(v) / int(v); a field the body does not hold is None, written 0
Number(v) ==
  CASE v = "-5" -> 0 - 5
    [] v = "0" -> 0
    [] v = "4" -> 4
    [] v = "350" -> 350
    [] OTHER -> 0

\* Annotated[float, PositiveFloat] / Annotated[int, PositiveInt]: the field is
\* a float (an int); PositiveFloat (PositiveInt), itself an Annotated alias,
\* is carried as metadata of the outer Annotated, where no known constraint
\* is read from it.
NumberFieldOk(v) == v \in Numbers

\* The rows of a table kept in insertion order
Rows(table) == {table[i] : i \in DOMAIN table}

\* CategoryRegister(**request_data) raises no ValidationError
CategoryRegisterValid(body) ==
  /\ StrFieldOk(body.name, CatalogueNameMin, CatalogueNameMax)
  /\ StrFieldOk(body.description, DescriptionMin, DescriptionMax)

\* ProductRegister(**request_data) raises no ValidationError: the three
\* fields are required.
ProductRegisterValid(body) ==
  /\ StrFieldOk(body.name, CatalogueNameMin, CatalogueNameMax)
  /\ NumberFieldOk(body.selling_price)
  /\ StrFieldOk(body.category_id, IdLength, IdLength)

\* ProductUpdate(**request_data) raises no ValidationError
ProductUpdateValid(body) ==
  /\ body.name = Absent
       \/ StrFieldOk(body.name, CatalogueNameMin, CatalogueNameMax)
  /\ body.selling_price = "absent" \/ NumberFieldOk(body.selling_price)
  /\ body.category_id = Absent
       \/ StrFieldOk(body.category_id, IdLength, IdLength)

\* model_dump() of a product body: every field of the schema
ProductDump(body) == {"name", "selling_price", "category_id"}

\* model_dump(exclude_unset=True) of a product body: the fields it holds
ProductSet(body) ==
  {f \in {"name"} : body.name # Absent}
    \cup {f \in {"selling_price"} : body.selling_price # "absent"}
    \cup {f \in {"category_id"} : body.category_id # Absent}

\* The texts sent as ids: none, one too short, and the ids of the rows.
IdTexts == {Absent, <<"1", "2">>} \cup {Uuid(n) : n \in 1..MaxRows}

\* The row number whose id a text of a body is once lower-cased and
\* stripped, 0 when it is no row's id; computed once per text.
IdOfText ==
  [v \in IdTexts |->
     IF \E n \in 1..MaxRows : Uuid(n) = Lower(Strip(v))
     THEN CHOOSE n \in 1..MaxRows : Uuid(n) = Lower(Strip(v))
     ELSE 0]

\* get_obj(cls, id) for an id sent in a body: the rows whose id is that text
get_obj_by_text(table, v) == {x \in table : x.id = IdOfText[v]}

NameAmp == <<"A", "m", "p">>
NamePan == <<"p", "a", "n">>

CategoryRegisterBodies ==
  [name : {NamePan}, description : {Absent, <<"p", "a", "i", "n">>}]
ProductBodies ==
  [name : {Absent, NameAmp, NamePan},
   selling_price : {"absent", "0", "350"},
   category_id : IdTexts]

\* The schema's verdict on each body, computed once.
ProductRegisterChecked == [b \in ProductBodies |-> ProductRegisterValid(b)]
ProductUpdateChecked == [b \in ProductBodies |-> ProductUpdateValid(b)]

\* db.save(product): [status, products].  An INSERT writes the row, an
\* UPDATE the attributes that were set, on the row as it is stored; a
\* foreign key written must name a stored row and the UPDATE must find its
\* row, anything else is an exception DatabaseOp.save answers with 500.
save_product(prods, cats, emps, row, set, insert) ==
  IF insert
  THEN IF row.category_id # 0 /\ row.category_id \notin Ids(cats)
       THEN [status |-> 500, products |-> prods]
       ELSE IF row.employee_id # 0 /\ row.employee_id \notin Ids(emps)
       THEN [status |-> 500, products |-> prods]
       ELSE [status |-> 0, products |-> Append(prods, row)]
  ELSE IF set = {}
  THEN [status |-> 0, products |-> prods]
  ELSE IF row.id \notin Ids(Rows(prods))
  THEN [status |-> 500, products |-> prods]
  ELSE IF "category_id" \in set /\ row.category_id \notin Ids(cats)
  THEN [status |-> 500, products |-> prods]
  ELSE [status |-> 0,
        products |-> [i \in DOMAIN prods |->
                        IF prods[i].id = row.id
                        THEN [f \in DOMAIN row |->
                                IF f \in set THEN row[f] ELSE prods[i][f]]
                        ELSE prods[i]]]

\* register_category; db.save answers 500 when the employee_id names no
\* stored employee.
RegisterCategory(r, body) ==
  LET q == req[r]
      status == IF admin_only(q.g) # 0 THEN admin_only(q.g)
                ELSE IF ~CategoryRegisterValid(body) THEN 400
                ELSE IF q.g.id \notin Ids(employees) THEN 500
                ELSE 201
      row == [id |-> nextId.category, name |-> Lower(Strip(body.name)),
              description |-> Lower(Strip(body.description)),
              employee_id |-> q.g.id]
  IN  /\ q.pc = "handler"
      /\ q.route = "register_category"
      /\ nextId.category <= MaxRows
      /\ categories' = IF status = 201 THEN categories \cup {row} ELSE categories
      /\ nextId' = IF status = 201
                   THEN [nextId EXCEPT !.category = @ + 1] ELSE nextId
      /\ req' = [req EXCEPT ![r] = Done(q, status)]
      /\ UNCHANGED <<employees, sessions, brands, nreq, lastLogin, products,
                     brand_products, purchase_orders, sales>>
      /\ UNCHANGED purchase_order_items

\* A products.category_id that the deletion of its category leaves alone.
keep_category_id(prods, category_id) == prods

\* ForeignKey("categories.id", ondelete="SET NULL")
set_null_category_id(prods, category_id) ==
  [i \in DOMAIN prods |->
     IF prods[i].category_id = category_id
     THEN [prods[i] EXCEPT !.category_id = 0] ELSE prods[i]]

\* delete_category: [status, categories, products]
delete_category(cats, prods, admin, category_id) ==
  IF admin_only(admin) # 0
  THEN [status |-> admin_only(admin), categories |-> cats, products |-> prods]
  ELSE IF get_obj(cats, category_id) = {}
  THEN [status |-> 404, categories |-> cats, products |-> prods]
  ELSE [status |-> 200,
        categories |-> {c \in cats : c.id # category_id},
        products |-> set_null_category_id(prods, category_id)]

DeleteCategory(r, category_id) ==
  LET q == req[r]
      out == delete_category(categories, products, q.g, category_id)
  IN  /\ q.pc = "handler"
      /\ q.route = "delete_category"
      /\ categories' = out.categories
      /\ products' = out.products
      /\ req' = [req EXCEPT ![r] =
                   [Done(q, out.status) EXCEPT !.data = <<category_id>>]]
      /\ UNCHANGED <<employees, sessions, brands, nextId, nreq, lastLogin,
                     brand_products, purchase_orders, sales>>
      /\ UNCHANGED purchase_order_items

\* register_product up to Product(**valid_data): [status, row]
register_product(cats, admin, body, id) ==
  IF admin_only(admin) # 0 THEN [status |-> admin_only(admin), row |-> <<>>]
  ELSE IF ~ProductRegisterChecked[body] THEN [status |-> 400, row |-> <<>>]
  ELSE IF "category_id" \in ProductSet(body)
          /\ get_obj_by_text(cats, body.category_id) = {}
  THEN [status |-> 404, row |-> <<>>]
  ELSE [status |-> 0,
        row |-> [id |-> id, name |-> Lower(Strip(body.name)),
                 selling_price |-> Number(body.selling_price),
                 category_id |->
                   IF "category_id" \in ProductSet(body)
                   THEN (CHOOSE c \in get_obj_by_text(cats, body.category_id) :
                           TRUE).id
                   ELSE 0,
                 employee_id |-> admin.id]]

RegisterProduct(r, body) ==
  LET q == req[r]
      out == register_product(categories, q.g, body, nextId.product)
  IN  /\ q.pc = "handler"
      /\ q.route = "register_product"
      /\ nextId.product <= MaxRows
      /\ nextId' = IF out.status = 0
                   THEN [nextId EXCEPT !.product = @ + 1] ELSE nextId
      /\ req' = [req EXCEPT ![r] =
                   IF out.status = 0
                   THEN [q EXCEPT !.pc = "save",
                                  !.data = [row |-> out.row, set |-> {}]]
                   ELSE Done(q, out.status)]
      /\ UNCHANGED <<employees, sessions, brands, nreq, lastLogin>>
      /\ UNCHANGED catalogue

\* update_product up to db.save(product): [status, row]
update_product(prods, cats, admin, product_id, body) ==
  IF admin_only(admin) # 0 THEN [status |-> admin_only(admin), row |-> <<>>]
  ELSE IF ~ProductUpdateChecked[body] THEN [status |-> 400, row |-> <<>>]
  ELSE IF get_obj(Rows(prods), product_id) = {}
  THEN [status |-> 404, row |-> <<>>]
  ELSE IF "category_id" \in ProductSet(body)
          /\ get_obj_by_text(cats, body.category_id) = {}
  THEN [status |-> 404, row |-> <<>>]
  ELSE LET product == CHOOSE p \in get_obj(Rows(prods), product_id) : TRUE
           set == ProductSet(body)
       IN  [status |-> 0,
            row |-> [product EXCEPT
                       !.name = IF "name" \in set
                                THEN Lower(Strip(body.name)) ELSE @,
                       !.selling_price = IF "selling_price" \in set
                                         THEN Number(body.selling_price) ELSE @,
                       !.category_id =
                         IF "category_id" \in set
                         THEN (CHOOSE c \in get_obj_by_text(cats, body.category_id) :
                                 TRUE).id
                         ELSE @]]

UpdateProduct(r, product_id, body) ==
  LET q == req[r]
      out == update_product(products, categories, q.g, product_id, body)
  IN  /\ q.pc = "handler"
      /\ q.route = "update_product"
      /\ req' = [req EXCEPT ![r] =
                   IF out.status = 0
                   THEN [q EXCEPT !.pc = "save",
                                  !.data = [row |-> out.row,
                                            set |-> ProductSet(body)]]
                   ELSE Done(q, out.status)]
      /\ UNCHANGED <<employees, sessions, brands, nextId, nreq, lastLogin>>
      /\ UNCHANGED catalogue

\* db.save(product) and the reply of register_product (201) and of
\* update_product (200)
SaveProduct(r) ==
  LET q == req[r]
      insert == q.route = "register_product"
      out == save_product(products, categories, employees, q.data.row,
                          q.data.set, insert)
  IN  /\ q.pc = "save"
      /\ q.route \in {"register_product", "update_product"}
      /\ products' = out.products
      /\ req' = [req EXCEPT ![r] =
                   Done(q, IF out.status # 0 THEN out.status
                           ELSE IF insert THEN 201 ELSE 200)]
      /\ UNCHANGED <<employees, sessions, brands, nextId, nreq, lastLogin,
                     categories, brand_products, purchase_orders,
                     sales>>
      /\ UNCHANGED purchase_order_items

\* get_category, get_product, get_purchase_order, get_sale_item: the
\* status, 404 when get_obj finds no row; the response names the id asked
get_entity(table, admin, id) ==
  IF admin_only(admin) # 0 THEN admin_only(admin)
  ELSE IF get_obj(table, id) = {} THEN 404
  ELSE 200

\* The table a GET route reads
EntityTable(route) ==
  CASE route = "get_category" -> categories
    [] route = "get_product" -> Rows(products)
    [] route = "get_purchase_order" -> purchase_orders
    [] route = "get_sale_item" -> sales

GetEntity(r, id) ==
  LET q == req[r]
  IN  /\ q.pc = "handler"
      /\ q.route \in {"get_category", "get_product", "get_purchase_order",
                      "get_sale_item"}
      /\ req' = [req EXCEPT ![r] =
                   [Done(q, get_entity(EntityTable(q.route), q.g, id))
                      EXCEPT !.data = <<id>>]]
      /\ UNCHANGED <<employees, sessions, brands, nextId, nreq, lastLogin>>
      /\ UNCHANGED catalogue

\* delete_product: [status, products, brand_products, sales].
\* brand_products.product_id cascades the delete; sales keep their rows with
\* product_id set to NULL.
delete_product(prods, links, sold, admin, product_id) ==
  IF admin_only(admin) # 0
  THEN [status |-> admin_only(admin), products |-> prods,
        brand_products |-> links, sales |-> sold]
  ELSE IF get_obj(Rows(prods), product_id) = {}
  THEN [status |-> 404, products |-> prods,
        brand_products |-> links, sales |-> sold]
  ELSE [status |-> 200,
        products |-> SelectSeq(prods, LAMBDA p : p.id # product_id),
        brand_products |->
          SelectSeq(links, LAMBDA l : l.product_id # product_id),
        sales |->
          {IF s.product_id = product_id THEN [s EXCEPT !.product_id = 0] ELSE s
             : s \in sold}]

DeleteProduct(r, product_id) ==
  LET q == req[r]
      out == delete_product(products, brand_products, sales, q.g, product_id)
  IN  /\ q.pc = "handler"
      /\ q.route = "delete_product"
      /\ products' = out.products
      /\ brand_products' = out.brand_products
      /\ sales' = out.sales
      /\ req' = [req EXCEPT ![r] =
                   [Done(q, out.status) EXCEPT !.data = <<product_id>>]]
      /\ UNCHANGED <<employees, sessions, brands, nextId, nreq, lastLogin,
                     categories, purchase_orders>>
      /\ purchase_order_items' =
           IF out.status = 200
           THEN {IF i.product_id = product_id THEN [i EXCEPT !.product_id = 0]
                 ELSE i : i \in purchase_order_items}
           ELSE purchase_order_items

\* ------------------------------------------------ purchase orders and sales

\* PurchaseOrderStatus: the values the enum takes
PurchaseOrderStatus == {"pending", "in progress", "complete", "cancelled"}

\* PurchaseOrderRegister(**request_data) raises no ValidationError
PurchaseOrderRegisterValid(body) ==
  /\ body.status = "absent" \/ body.status \in PurchaseOrderStatus
  /\ StrFieldOk(body.brand_id, IdLength, IdLength)

\* PurchaseOrderUpdate(**request_data) raises no ValidationError
PurchaseOrderUpdateValid(body) ==
  /\ body.status = "absent" \/ body.status \in PurchaseOrderStatus
  /\ body.brand_id = Absent \/ StrFieldOk(body.brand_id, IdLength, IdLength)

\* model_dump(exclude_unset=True) of a purchase-order body
PurchaseOrderSet(body) ==
  {f \in {"status"} : body.status # "absent"}
    \cup {f \in {"brand_id"} : body.brand_id # Absent}

\* SaleRegister(**request_data) raises no ValidationError: the five fields
\* are required.
SaleRegisterValid(body) ==
  /\ StrFieldOk(body.product_id, IdLength, IdLength)
  /\ StrFieldOk(body.brand_id, IdLength, IdLength)
  /\ NumberFieldOk(body.quantity)
  /\ NumberFieldOk(body.unit_selling_price)
  /\ NumberFieldOk(body.total_selling_price)

\* SaleUpdate(**request_data) raises no ValidationError
SaleUpdateValid(body) ==
  /\ body.product_id = Absent \/ StrFieldOk(body.product_id, IdLength, IdLength)
  /\ body.brand_id = Absent \/ StrFieldOk(body.brand_id, IdLength, IdLength)
  /\ body.quantity = "absent" \/ NumberFieldOk(body.quantity)
  /\ body.unit_selling_price = "absent"
       \/ NumberFieldOk(body.unit_selling_price)
  /\ body.total_selling_price = "absent"
       \/ NumberFieldOk(body.total_selling_price)

\* model_dump(exclude_unset=True) of a sale body
SaleSet(body) ==
  {f \in {"product_id"} : body.product_id # Absent}
    \cup {f \in {"brand_id"} : body.brand_id # Absent}
    \cup {f \in {"quantity"} : body.quantity # "absent"}
    \cup {f \in {"unit_selling_price"} : body.unit_selling_price # "absent"}
    \cup {f \in {"total_selling_price"} : body.total_selling_price # "absent"}

PurchaseOrderBodies ==
  [status : {"absent", "cancelled", "shipped"},
   brand_id : {Absent} \cup {Uuid(n) : n \in 1..MaxBrands}]
\* Sales of a stored brand and product with each quantity and unit price,
\* and updates of one field.
SaleBodies ==
  [product_id : {Uuid(1)}, brand_id : {Uuid(1)}, quantity : {"0", "4"},
   unit_selling_price : {"-5", "350"}, total_selling_price : {"350"}]
    \cup [product_id : {Absent}, brand_id : {Absent, Uuid(MaxBrands)},
          quantity : {"absent", "0"}, unit_selling_price : {"absent"},
          total_selling_price : {"absent"}]

\* The schema's verdict on each sale body, computed once.
SaleRegisterChecked == [b \in SaleBodies |-> SaleRegisterValid(b)]
SaleUpdateChecked == [b \in SaleBodies |-> SaleUpdateValid(b)]

\* db.save(purchase_order): [status, purchase_orders].  A status taken from
\* the body is a member of the schema's PurchaseOrderStatus, which the
\* column's Enum(OrderStatus) does not accept: the flush raises and db.save
\* answers 500.  brand_id and employee_id must name stored rows.
save_purchase_order(orders, brnds, emps, row, set) ==
  IF "status" \in set
  THEN [status |-> 500, purchase_orders |-> orders]
  ELSE IF row.brand_id # 0 /\ row.brand_id \notin Ids(brnds)
  THEN [status |-> 500, purchase_orders |-> orders]
  ELSE IF row.employee_id # 0 /\ row.employee_id \notin Ids(emps)
  THEN [status |-> 500, purchase_orders |-> orders]
  ELSE [status |-> 0,
        purchase_orders |-> {o \in orders : o.id # row.id} \cup {row}]

\* A register_purchase_order that leaves employee_id unset.
register_purchase_order_unstamped(orders, brnds, emps, admin, body, id) ==
  IF admin_only(admin) # 0
  THEN [status |-> admin_only(admin), purchase_orders |-> orders]
  ELSE IF ~PurchaseOrderRegisterValid(body)
  THEN [status |-> 400, purchase_orders |-> orders]
  ELSE LET row == [id |-> id, status |-> "pending",
                   brand_id |-> IdOfText[body.brand_id], employee_id |-> 0]
           out == save_purchase_order(orders, brnds, emps, row,
                                      PurchaseOrderSet(body))
       IN  [status |-> IF out.status = 0 THEN 201 ELSE out.status,
            purchase_orders |-> out.purchase_orders]

\* register_purchase_order: [status, purchase_orders]
register_purchase_order(orders, brnds, emps, admin, body, id) ==
  IF admin_only(admin) # 0
  THEN [status |-> admin_only(admin), purchase_orders |-> orders]
  ELSE IF ~PurchaseOrderRegisterValid(body)
  THEN [status |-> 400, purchase_orders |-> orders]
  ELSE LET row == [id |-> id,
                   status |-> IF "status" \in PurchaseOrderSet(body)
                              THEN body.status ELSE "pending",
                   brand_id |-> IdOfText[body.brand_id],
                   employee_id |-> admin.id]
           out == save_purchase_order(orders, brnds, emps, row,
                                      PurchaseOrderSet(body))
       IN  [status |-> IF out.status = 0 THEN 201 ELSE out.status,
            purchase_orders |-> out.purchase_orders]

RegisterPurchaseOrder(r, body) ==
  LET q == req[r]
      out == register_purchase_order(purchase_orders, brands, employees, q.g,
                                     body, nextId.order)
  IN  /\ q.pc = "handler"
      /\ q.route = "register_purchase_order"
      /\ nextId.order <= MaxRows
      /\ purchase_orders' = out.purchase_orders
      /\ nextId' = IF out.status = 201
                   THEN [nextId EXCEPT !.order = @ + 1] ELSE nextId
      /\ req' = [req EXCEPT ![r] = Done(q, out.status)]
      /\ UNCHANGED <<employees, sessions, brands, nreq, lastLogin, categories,
                     products, brand_products, sales>>
      /\ UNCHANGED purchase_order_items

\* update_purchase_order: [status, purchase_orders]
update_purchase_order(orders, brnds, emps, admin, purchase_order_id, body) ==
  IF admin_only(admin) # 0
  THEN [status |-> admin_only(admin), purchase_orders |-> orders]
  ELSE IF ~PurchaseOrderUpdateValid(body)
  THEN [status |-> 400, purchase_orders |-> orders]
  ELSE IF get_obj(orders, purchase_order_id) = {}
  THEN [status |-> 404, purchase_orders |-> orders]
  ELSE LET order == CHOOSE o \in get_obj(orders, purchase_order_id) : TRUE
           set == PurchaseOrderSet(body)
           row == [order EXCEPT
                     !.status = IF "status" \in set THEN body.status ELSE @,
                     !.brand_id = IF "brand_id" \in set
                                  THEN IdOfText[body.brand_id] ELSE @]
           out == save_purchase_order(orders, brnds, emps, row, set)
       IN  [status |-> IF out.status = 0 THEN 200 ELSE out.status,
            purchase_orders |-> out.purchase_orders]

UpdatePurchaseOrder(r, purchase_order_id, body) ==
  LET q == req[r]
      out == update_purchase_order(purchase_orders, brands, employees, q.g,
                                   purchase_order_id, body)
  IN  /\ q.pc = "handler"
      /\ q.route = "update_purchase_order"
      /\ purchase_orders' = out.purchase_orders
      /\ req' = [req EXCEPT ![r] = Done(q, out.status)]
      /\ UNCHANGED <<employees, sessions, brands, nextId, nreq, lastLogin,
                     categories, products, brand_products, sales>>
      /\ UNCHANGED purchase_order_items

\* A delete that answers 200 and leaves the row stored.
delete_nothing(table, admin, id) ==
  IF admin_only(admin) # 0 THEN [status |-> admin_only(admin), table |-> table]
  ELSE IF get_obj(table, id) = {} THEN [status |-> 404, table |-> table]
  ELSE [status |-> 200, table |-> table]

\* delete_purchase_order / delete_sale_item: [status, table]
delete_entity(table, admin, id) ==
  IF admin_only(admin) # 0 THEN [status |-> admin_only(admin), table |-> table]
  ELSE IF get_obj(table, id) = {} THEN [status |-> 404, table |-> table]
  ELSE [status |-> 200, table |-> {x \in table : x.id # id}]

DeletePurchaseOrder(r, purchase_order_id) ==
  LET q == req[r]
      out == delete_entity(purchase_orders, q.g, purchase_order_id)
  IN  /\ q.pc = "handler"
      /\ q.route = "delete_purchase_order"
      /\ purchase_orders' = out.table
      /\ req' = [req EXCEPT ![r] =
                   [Done(q, out.status) EXCEPT !.data = <<purchase_order_id>>]]
      /\ UNCHANGED <<employees, sessions, brands, nextId, nreq, lastLogin,
                     categories, products, brand_products, sales>>
      /\ purchase_order_items' =
           IF out.status = 200
           THEN {IF i.purchase_order_id = purchase_order_id
                 THEN [i EXCEPT !.purchase_order_id = 0]
                 ELSE i : i \in purchase_order_items}
           ELSE purchase_order_items

\* add_sale_item: [status, sales]; db.save answers 500 when the employee_id
\* names no stored employee.
add_sale_item(sold, prods, brnds, emps, admin, body, id) ==
  IF admin_only(admin) # 0 THEN [status |-> admin_only(admin), sales |-> sold]
  ELSE IF ~SaleRegisterChecked[body] THEN [status |-> 400, sales |-> sold]
  ELSE IF get_obj_by_text(brnds, body.brand_id) = {}
  THEN [status |-> 404, sales |-> sold]
  ELSE IF get_obj_by_text(Rows(prods), body.product_id) = {}
  THEN [status |-> 404, sales |-> sold]
  ELSE IF admin.id \notin Ids(emps) THEN [status |-> 500, sales |-> sold]
  ELSE [status |-> 201,
        sales |-> sold \cup
          {[id |-> id, product_id |-> IdOfText[body.product_id],
            brand_id |-> IdOfText[body.brand_id],
            quantity |-> Number(body.quantity),
            unit_selling_price |-> Number(body.unit_selling_price),
            total_selling_price |-> Number(body.total_selling_price),
            employee_id |-> admin.id]}]

AddSaleItem(r, body) ==
  LET q == req[r]
      out == add_sale_item(sales, products, brands, employees, q.g, body,
                           nextId.sale)
  IN  /\ q.pc = "handler"
      /\ q.route = "add_sale_item"
      /\ nextId.sale <= MaxRows
      /\ sales' = out.sales
      /\ nextId' = IF out.status = 201
                   THEN [nextId EXCEPT !.sale = @ + 1] ELSE nextId
      /\ req' = [req EXCEPT ![r] = Done(q, out.status)]
      /\ UNCHANGED <<employees, sessions, brands, nreq, lastLogin, categories,
                     products, brand_products, purchase_orders>>
      /\ UNCHANGED purchase_order_items

\* update_sale_item: [status, sales]
update_sale_item(sold, prods, brnds, admin, sale_id, body) ==
  IF admin_only(admin) # 0 THEN [status |-> admin_only(admin), sales |-> sold]
  ELSE IF ~SaleUpdateChecked[body] THEN [status |-> 400, sales |-> sold]
  ELSE IF "brand_id" \in SaleSet(body)
          /\ get_obj_by_text(brnds, body.brand_id) = {}
  THEN [status |-> 404, sales |-> sold]
  ELSE IF "product_id" \in SaleSet(body)
          /\ get_obj_by_text(Rows(prods), body.product_id) = {}
  THEN [status |-> 404, sales |-> sold]
  ELSE IF get_obj(sold, sale_id) = {}
  THEN [status |-> 404, sales |-> sold]
  ELSE LET sale == CHOOSE s \in get_obj(sold, sale_id) : TRUE
           set == SaleSet(body)
           row == [sale EXCEPT
                     !.product_id = IF "product_id" \in set
                                    THEN IdOfText[body.product_id] ELSE @,
                     !.brand_id = IF "brand_id" \in set
                                  THEN IdOfText[body.brand_id] ELSE @,
                     !.quantity = IF "quantity" \in set
                                  THEN Number(body.quantity) ELSE @,
                     !.unit_selling_price =
                        IF "unit_selling_price" \in set
                        THEN Number(body.unit_selling_price) ELSE @,
                     !.total_selling_price =
                        IF "total_selling_price" \in set
                        THEN Number(body.total_selling_price) ELSE @]
       IN  [status |-> 200, sales |-> {s \in sold : s.id # sale_id} \cup {row}]

UpdateSaleItem(r, sale_id, body) ==
  LET q == req[r]
      out == update_sale_item(sales, products, brands, q.g, sale_id, body)
  IN  /\ q.pc = "handler"
      /\ q.route = "update_sale_item"
      /\ sales' = out.sales
      /\ req' = [req EXCEPT ![r] = Done(q, out.status)]
      /\ UNCHANGED <<employees, sessions, brands, nextId, nreq, lastLogin,
                     categories, products, brand_products, purchase_orders>>
      /\ UNCHANGED purchase_order_items

DeleteSaleItem(r, sale_id) ==
  LET q == req[r]
      out == delete_entity(sales, q.g, sale_id)
  IN  /\ q.pc = "handler"
      /\ q.route = "delete_sale_item"
      /\ sales' = out.table
      /\ req' = [req EXCEPT ![r] =
                   [Done(q, out.status) EXCEPT !.data = <<sale_id>>]]
      /\ UNCHANGED <<employees, sessions, brands, nextId, nreq, lastLogin,
                     categories, products, brand_products, purchase_orders>>
      /\ UNCHANGED purchase_order_items

\* What the storage calls of a delete handler do: both return, obj.delete()
\* raises, or the commit raises.
StorageFaults == {"none", "delete", "commit"}

\* delete_purchase_order / delete_sale_item with the outcome of their storage
\* calls: [status, table, raised].  DatabaseOp.delete aborts 400 when
\* obj.delete() raises; DatabaseOp.commit aborts 500 when storage.save()
\* raises, the transaction rolled back.
delete_entity_storage(table, admin, id, fault) ==
  IF admin_only(admin) # 0
  THEN [status |-> admin_only(admin), table |-> table, raised |-> "none"]
  ELSE IF get_obj(table, id) = {}
  THEN [status |-> 404, table |-> table, raised |-> "none"]
  ELSE IF fault = "delete"
  THEN [status |-> 400, table |-> table, raised |-> fault]
  ELSE IF fault = "commit"
  THEN [status |-> 500, table |-> table, raised |-> fault]
  ELSE [status |-> 200, table |-> {x \in table : x.id # id},
        raised |-> "none"]

DeleteEntityStorage(r, id, fault) ==
  LET q == req[r]
      order == q.route = "delete_purchase_order"
      out == delete_entity_storage(IF order THEN purchase_orders ELSE sales,
                                   q.g, id, fault)
  IN  /\ q.pc = "handler"
      /\ q.route \in {"delete_purchase_order", "delete_sale_item"}
      /\ purchase_orders' = IF order THEN out.table ELSE purchase_orders
      /\ sales' = IF order THEN sales ELSE out.table
      /\ req' = [req EXCEPT ![r] =
                   [Done(q, out.status) EXCEPT !.data = <<id, out.raised>>]]
      /\ UNCHANGED <<employees, sessions, brands, nextId, nreq, lastLogin,
                     categories, products, brand_products>>
      /\ purchase_order_items' =
           IF order /\ out.status = 200
           THEN {IF i.purchase_order_id = id
                 THEN [i EXCEPT !.purchase_order_id = 0]
                 ELSE i : i \in purchase_order_items}
           ELSE purchase_order_items

\* ------------------------------------------------------------- pagination

\* A select that skips page_num pages instead of page_num - 1.
all_from_page_zero(table, page_size, page_num) ==
  IF page_size <= 0 \/ page_num <= 0
  THEN [raised |-> "ValueError", rows |-> <<>>]
  ELSE LET skipped == SubSeq(table, page_num * page_size + 1, Len(table))
       IN  [raised |-> "",
            rows |-> SubSeq(skipped, 1,
                            IF page_size < Len(skipped)
                            THEN page_size ELSE Len(skipped))]

\* DBStorage.all: [raised, rows].  select(cls).offset(...).limit(...) on the
\* rows in the order the store scans them.
all(table, page_size, page_num) ==
  IF page_size <= 0 THEN [raised |-> "ValueError", rows |-> <<>>]
  ELSE IF page_num <= 0 THEN [raised |-> "ValueError", rows |-> <<>>]
  ELSE LET skipped == SubSeq(table, (page_num - 1) * page_size + 1, Len(table))
       IN  [raised |-> "",
            rows |-> SubSeq(skipped, 1,
                            IF page_size < Len(skipped)
                            THEN page_size ELSE Len(skipped))]

\* get_all_products: [status, rows].  The path converters pass page_size
\* and page_num as non-negative integers; an exception of storage.all is
\* not handled and the server answers 500.
get_all_products(prods, admin, page_size, page_num) ==
  IF admin_only(admin) # 0 THEN [status |-> admin_only(admin), rows |-> <<>>]
  ELSE LET products_objects == all(prods, page_size, page_num)
       IN  IF products_objects.raised # ""
           THEN [status |-> 500, rows |-> <<>>]
           ELSE IF products_objects.rows = <<>>
           THEN [status |-> 404, rows |-> <<>>]
           ELSE [status |-> 200, rows |-> products_objects.rows]

\* The response carries the page as its data.
GetAllProducts(r, page_size, page_num) ==
  LET q == req[r]
      out == get_all_products(products, q.g, page_size, page_num)
  IN  /\ q.pc = "handler"
      /\ q.route = "get_all_products"
      /\ req' = [req EXCEPT ![r] = [Done(q, out.status) EXCEPT !.data = out.rows]]
      /\ UNCHANGED <<employees, sessions, brands, nextId, nreq, lastLogin>>
      /\ UNCHANGED catalogue

\* ------------------------------------------------ product-brand links

\* product.brands: the ids of the brands the link table gives a product, in
\* the order of its rows
product_brands(links, product_id) ==
  LET rows == SelectSeq(links, LAMBDA l : l.product_id = product_id)
  IN  [i \in 1..Len(rows) |-> rows[i].brand_id]

\* The values of a list
Items(list) == {list[i] : i \in 1..Len(list)}

\* add_product_brands up to product.brands.append(brand): [status, brands,
\* insert], the collection after the append and whether the append added a
\* brand the collection did not hold when it was loaded (an INSERT at the
\* flush; a brand it held is added to the list and to nothing else).
add_product_brands(prods, brnds, links, admin, product_id, brand_id) ==
  IF admin_only(admin) # 0
  THEN [status |-> admin_only(admin), brands |-> <<>>, insert |-> FALSE]
  ELSE IF get_obj(Rows(prods), product_id) = {}
  THEN [status |-> 404, brands |-> <<>>, insert |-> FALSE]
  ELSE IF get_obj(brnds, brand_id) = {}
  THEN [status |-> 404, brands |-> <<>>, insert |-> FALSE]
  ELSE LET loaded == product_brands(links, product_id)
       IN  [status |-> 0, brands |-> Append(loaded, brand_id),
            insert |-> brand_id \notin Items(loaded)]

\* delete_product_brand up to product.brands.remove(brand): [status, brands];
\* list.remove raises ValueError for a brand the collection does not hold.
delete_product_brand(prods, brnds, links, admin, product_id, brand_id) ==
  IF admin_only(admin) # 0 THEN [status |-> admin_only(admin), brands |-> <<>>]
  ELSE IF get_obj(Rows(prods), product_id) = {}
  THEN [status |-> 404, brands |-> <<>>]
  ELSE IF get_obj(brnds, brand_id) = {} THEN [status |-> 404, brands |-> <<>>]
  ELSE LET loaded == product_brands(links, product_id)
       IN  IF brand_id \notin Items(loaded)
           THEN [status |-> 500, brands |-> <<>>]
           ELSE [status |-> 0,
                 brands |-> SelectSeq(loaded, LAMBDA b : b # brand_id)]

\* product.save() of add_product_brands: the set of [status, brand_products]
\* it may end in.  The product's row is updated (last_updated) and must
\* still be stored; an INSERT into brand_products needs the brand's row and
\* a primary key no row has.  No handler catches what the commit raises.
save_added_brand(prods, brnds, links, d) ==
  LET row == [product_id |-> d.product_id, brand_id |-> d.brand_id]
  IN  IF get_obj(Rows(prods), d.product_id) = {}
      THEN {[status |-> 500, brand_products |-> links]}
      ELSE IF ~d.insert
      THEN {[status |-> 201, brand_products |-> links]}
      ELSE IF get_obj(brnds, d.brand_id) = {} \/ row \in Items(links)
      THEN {[status |-> 500, brand_products |-> links]}
      ELSE {[status |-> 201, brand_products |-> Append(links, row)]}

\* product.save() of delete_product_brand: the set of [status,
\* brand_products] it may end in.  A DELETE that matches no row, the link
\* being gone since the collection was loaded, raises or not with the
\* driver's row counts.
save_removed_brand(prods, links, d) ==
  LET row == [product_id |-> d.product_id, brand_id |-> d.brand_id]
  IN  IF get_obj(Rows(prods), d.product_id) = {}
      THEN {[status |-> 500, brand_products |-> links]}
      ELSE IF row \in Items(links)
      THEN {[status |-> 200, brand_products |-> SelectSeq(links, LAMBDA l : l # row)]}
      ELSE {[status |-> 200, brand_products |-> links],
            [status |-> 500, brand_products |-> links]}

AddProductBrands(r, product_id, brand_id) ==
  LET q == req[r]
      out == add_product_brands(products, brands, brand_products, q.g,
                                product_id, brand_id)
  IN  /\ q.pc = "handler"
      /\ q.route = "add_product_brands"
      /\ req' = [req EXCEPT ![r] =
                   IF out.status = 0
                   THEN [q EXCEPT !.pc = "save",
                                  !.data = [product_id |-> product_id,
                                            brand_id |-> brand_id,
                                            brands |-> out.brands,
                                            insert |-> out.insert]]
                   ELSE Done(q, out.status)]
      /\ UNCHANGED <<employees, sessions, brands, nextId, nreq, lastLogin>>
      /\ UNCHANGED catalogue

DeleteProductBrand(r, product_id, brand_id) ==
  LET q == req[r]
      out == delete_product_brand(products, brands, brand_products, q.g,
                                  product_id, brand_id)
  IN  /\ q.pc = "handler"
      /\ q.route = "delete_product_brand"
      /\ req' = [req EXCEPT ![r] =
                   IF out.status = 0
                   THEN [q EXCEPT !.pc = "save",
                                  !.data = [product_id |-> product_id,
                                            brand_id |-> brand_id,
                                            brands |-> out.brands,
                                            insert |-> FALSE]]
                   ELSE Done(q, out.status)]
      /\ UNCHANGED <<employees, sessions, brands, nextId, nreq, lastLogin>>
      /\ UNCHANGED catalogue

\* product.save() and the response: an added link answers 201 with the
\* product's collection, a removed one 200.
SaveProductBrands(r) ==
  LET q == req[r]
  IN  /\ q.pc = "save"
      /\ q.route \in {"add_product_brands", "delete_product_brand"}
      /\ \E out \in IF q.route = "add_product_brands"
                    THEN save_added_brand(products, brands, brand_products,
                                          q.data)
                    ELSE save_removed_brand(products, brand_products, q.data) :
           /\ brand_products' = out.brand_products
           /\ req' = [req EXCEPT ![r] =
                        [Done(q, out.status) EXCEPT
                           !.data = IF out.status = 201
                                    THEN q.data.brands ELSE <<>>]]
      /\ UNCHANGED <<employees, sessions, brands, nextId, nreq, lastLogin,
                     categories, products, purchase_orders, sales>>
      /\ UNCHANGED purchase_order_items

\* ------------------------------------------------- purchase order items

\* PurchaseOrderItemUpdate(**request_data) raises no ValidationError
PurchaseOrderItemUpdateValid(body) ==
  /\ body.product_id = Absent \/ StrFieldOk(body.product_id, IdLength, IdLength)
  /\ body.quantity = "absent" \/ NumberFieldOk(body.quantity)

\* model_dump(exclude_unset=True) of an order-item body
PurchaseOrderItemSet(body) ==
  {f \in {"product_id"} : body.product_id # Absent}
    \cup {f \in {"quantity"} : body.quantity # "absent"}

\* Updates of an item's product, of its quantity, of both and of nothing
PurchaseOrderItemBodies ==
  [product_id : {Absent, Uuid(1)}, quantity : {"absent", "350"}]

\* get_purchase_item: the status; the order and the item are looked up by
\* their ids, each on its own.
get_purchase_item(orders, items, admin, order_id, order_item_id) ==
  IF admin_only(admin) # 0 THEN admin_only(admin)
  ELSE IF get_obj(orders, order_id) = {} THEN 404
  ELSE IF get_obj(items, order_item_id) = {} THEN 404
  ELSE 200

GetPurchaseItem(r, order_id, order_item_id) ==
  LET q == req[r]
      status == get_purchase_item(purchase_orders, purchase_order_items, q.g,
                                  order_id, order_item_id)
  IN  /\ q.pc = "handler"
      /\ q.route = "get_purchase_item"
      /\ req' = [req EXCEPT ![r] =
                   [Done(q, status) EXCEPT
                      !.data = [order_id |-> order_id,
                                order_item_id |-> order_item_id,
                                items |-> IF status = 200
                                          THEN get_obj(purchase_order_items,
                                                       order_item_id)
                                          ELSE {}]]]
      /\ UNCHANGED <<employees, sessions, brands, nextId, nreq, lastLogin>>
      /\ UNCHANGED catalogue

\* update_purchase_order_item: [status, items]
update_purchase_order_item(orders, prods, items, admin, order_id, order_item_id, body) ==
  IF admin_only(admin) # 0 THEN [status |-> admin_only(admin), items |-> items]
  ELSE IF ~PurchaseOrderItemUpdateValid(body)
  THEN [status |-> 400, items |-> items]
  ELSE IF "product_id" \in PurchaseOrderItemSet(body)
          /\ get_obj_by_text(Rows(prods), body.product_id) = {}
  THEN [status |-> 404, items |-> items]
  ELSE IF get_obj(orders, order_id) = {}
  THEN [status |-> 404, items |-> items]
  ELSE IF get_obj(items, order_item_id) = {}
  THEN [status |-> 404, items |-> items]
  ELSE LET item == CHOOSE i \in get_obj(items, order_item_id) : TRUE
           set == PurchaseOrderItemSet(body)
           row == [item EXCEPT
                     !.product_id = IF "product_id" \in set
                                    THEN IdOfText[body.product_id] ELSE @,
                     !.quantity = IF "quantity" \in set
                                  THEN Number(body.quantity) ELSE @]
       IN  [status |-> 200,
            items |-> {i \in items : i.id # order_item_id} \cup {row}]

UpdatePurchaseOrderItem(r, order_id, order_item_id, body) ==
  LET q == req[r]
      out == update_purchase_order_item(purchase_orders, products,
                                        purchase_order_items, q.g, order_id,
                                        order_item_id, body)
  IN  /\ q.pc = "handler"
      /\ q.route = "update_purchase_order_item"
      /\ purchase_order_items' = out.items
      /\ req' = [req EXCEPT ![r] =
                   [Done(q, out.status) EXCEPT
                      !.data = [order_id |-> order_id,
                                order_item_id |-> order_item_id,
                                items |-> {}]]]
      /\ UNCHANGED <<employees, sessions, brands, nextId, nreq, lastLogin,
                     categories, products, brand_products, purchase_orders,
                     sales>>

\* delete_purchase_order_item: [status, items]
delete_purchase_order_item(orders, items, admin, order_id, order_item_id) ==
  IF admin_only(admin) # 0 THEN [status |-> admin_only(admin), items |-> items]
  ELSE IF get_obj(orders, order_id) = {} THEN [status |-> 404, items |-> items]
  ELSE IF get_obj(items, order_item_id) = {}
  THEN [status |-> 404, items |-> items]
  ELSE [status |-> 200, items |-> {i \in items : i.id # order_item_id}]

DeletePurchaseOrderItem(r, order_id, order_item_id) ==
  LET q == req[r]
      out == delete_purchase_order_item(purchase_orders, purchase_order_items,
                                        q.g, order_id, order_item_id)
  IN  /\ q.pc = "handler"
      /\ q.route = "delete_purchase_order_item"
      /\ purchase_order_items' = out.items
      /\ req' = [req EXCEPT ![r] =
                   [Done(q, out.status) EXCEPT
                      !.data = [order_id |-> order_id,
                                order_item_id |-> order_item_id,
                                items |-> {}]]]
      /\ UNCHANGED <<employees, sessions, brands, nextId, nreq, lastLogin,
                     categories, products, brand_products, purchase_orders,
                     sales>>

\* ------------------------------------------------------------ serializers

\* getattr(row.added_by, "username", None): the username of the employee the
\* row's employee_id names
added_by(emps, row) ==
  IF \E e \in emps : e.id = row.employee_id
  THEN (CHOOSE e \in emps : e.id = row.employee_id).username
  ELSE Absent

\* --------------------------------------------------------- specifications

\* Requests name their route without the trailing slash, as the tests do.
Slashes == {FALSE}

\* A request for one of `routes`, one of at most `limit` in the run, is
\* taken by the first free worker.
Arrive(r, routes, limit) ==
  /\ nreq < limit
  /\ \A w \in Slots : Before(w, r) => req[w].pc \notin {"idle", "done"}
  /\ \E route \in routes, slash \in Slashes, cookie \in Cookies :
       Gate(r, route, slash, cookie)

Login(r, bodies) ==
  \/ \E body \in bodies : LoginAuthenticate(r, body)
  \/ LoginGetSession(r)
  \/ LoginCreateSession(r)
  \/ LoginReply(r)

BrandHandler(r) ==
  \/ \E body \in BrandRegisterBodies : RegisterBrand(r, body)
  \/ \E id \in 1..MaxBrands : GetBrand(r, id)
  \/ \E id \in 1..MaxBrands, body \in BrandUpdateBodies : UpdateBrand(r, id, body)
  \/ \E id \in 1..MaxBrands : DeleteBrand(r, id)

\* Registration, login, logout and one protected route, served concurrently
\* by the worker threads.
AuthRoutes == {"register", "login", "logout", "get_brand"}

Next ==
  \/ \E r \in Slots : Arrive(r, AuthRoutes, MaxRequests)
  \/ \E r \in Slots, body \in RegisterBodies : RegisterEmployee(r, body)
  \/ \E r \in Slots : Login(r, LoginBodies)
  \/ \E r \in Slots : Logout(r)
  \/ \E r \in Slots, id \in 1..MaxBrands : GetBrand(r, id)
  \/ \E e \in employees : DeleteEmployee(e)

Spec == Init /\ [][Next]_vars

\* The same, with the requests served one after the other.
NoneInFlight == \A r \in Slots : req[r].pc \in {"idle", "done"}

SeqNext ==
  \/ \E r \in Slots : NoneInFlight /\ Arrive(r, AuthRoutes, MaxRequests)
  \/ \E r \in Slots, body \in RegisterBodies : RegisterEmployee(r, body)
  \/ \E r \in Slots : Login(r, LoginBodies)
  \/ \E r \in Slots : Logout(r)
  \/ \E r \in Slots, id \in 1..MaxBrands : GetBrand(r, id)
  \/ \E e \in employees : NoneInFlight /\ DeleteEmployee(e)

SpecSeq == Init /\ [][SeqNext]_vars

\* The brand routes, served concurrently, with the employees registering
\* and logging in with their own credentials.
BrandRoutes ==
  {"register", "login", "register_brand", "get_brand", "update_brand",
   "delete_brand"}
OwnRegisterBodies == {b \in RegisterBodies : b.username \in {UserRRo, UserAmy}}
OwnLoginBodies ==
  { [email |-> Absent, username |-> UserRRo, password |-> PwR],
    [email |-> Absent, username |-> UserAmy, password |-> PwA] }

BrandNext ==
  \/ \E r \in Slots : Arrive(r, BrandRoutes, MaxRequests)
  \/ \E r \in Slots, body \in OwnRegisterBodies : RegisterEmployee(r, body)
  \/ \E r \in Slots : Login(r, OwnLoginBodies)
  \/ \E r \in Slots : BrandHandler(r)
  \/ \E e \in employees : DeleteEmployee(e)

SpecBrand == Init /\ [][BrandNext]_vars

\* Brand registrations alone, served concurrently.
RaceNext ==
  \/ \E r \in Slots : Arrive(r, {"register", "login", "register_brand"},
                            MaxRaceRequests)
  \/ \E r \in Slots, body \in OwnRegisterBodies : RegisterEmployee(r, body)
  \/ \E r \in Slots : Login(r, OwnLoginBodies)
  \/ \E r \in Slots, body \in BrandRegisterBodies : RegisterBrand(r, body)

SpecRace == Init /\ [][RaceNext]_vars

\* Registrations and logins in mixed case, served one after the other.
CaseNext ==
  \/ \E r \in Slots :
       NoneInFlight /\ Arrive(r, {"register", "login"}, MaxRequests)
  \/ \E r \in Slots, body \in CaseRegisterBodies : RegisterEmployee(r, body)
  \/ \E r \in Slots : Login(r, CaseLoginBodies)

SpecCase == Init /\ [][CaseNext]_vars

\* The state a test class sets up: the manager registered as an admin and
\* logged in, and the rows its setUp stored, each table numbered from 1.
SetUp(brnds, cats, prods, orders, sold) ==
  /\ employees = {[id |-> 1, username |-> Lower(UserRRo), email |-> Lower(EmailR),
                   password |-> BcryptHash(PwR), is_admin |-> TRUE]}
  /\ sessions = {[id |-> SessionId(1), employee_id |-> 1]}
  /\ brands = brnds
  /\ nextId = [employee |-> 2, token |-> 2, brand |-> Cardinality(brnds) + 1,
               category |-> Cardinality(cats) + 1, product |-> Len(prods) + 1,
               order |-> Cardinality(orders) + 1,
               sale |-> Cardinality(sold) + 1]
  /\ nreq = 0
  /\ req = [r \in Slots |-> IdleRequest]
  /\ lastLogin = [e \in 1..MaxEmployees |->
                    IF e = 1 THEN SessionId(1) ELSE NoCookie]
  /\ categories = cats
  /\ products = prods
  /\ brand_products = <<>>
  /\ purchase_orders = orders
  /\ sales = sold
  /\ purchase_order_items = {}

\* The rows the tests store: a brand, a category, a product of it, a
\* purchase order of the brand and a sale of the product.
BrandEmz == [id |-> 1, name |-> BrandName(<<"E", "m", "z">>), is_active |-> TRUE,
             employee_id |-> 1]
CategoryPan == [id |-> 1, name |-> NamePan, description |-> <<"p", "a", "i", "n">>,
                employee_id |-> 1]
ProductAmp == [id |-> 1, name |-> Lower(NameAmp), selling_price |-> 350,
               category_id |-> 1, employee_id |-> 1]
OrderEmz == [id |-> 1, status |-> "pending", brand_id |-> 1, employee_id |-> 1]
SaleAmp == [id |-> 1, product_id |-> 1, brand_id |-> 1, quantity |-> 4,
            unit_selling_price |-> 350, total_selling_price |-> 350,
            employee_id |-> 1]

\* A request of the test client, with the admin's cookie or with none, is
\* taken by the first free worker.
CatalogueArrive(r, routes) ==
  /\ nreq < MaxCatalogueRequests
  /\ \A w \in Slots : Before(w, r) => req[w].pc \notin {"idle", "done"}
  /\ \E route \in routes, cookie \in {NoCookie, SessionId(1)} :
       Gate(r, route, FALSE, cookie)

\* The category and product routes, served concurrently.
ProductRoutes ==
  {"register_category", "delete_category", "register_product",
   "update_product", "delete_product", "get_product", "get_category"}

ProductNext ==
  \/ \E r \in Slots : CatalogueArrive(r, ProductRoutes)
  \/ \E r \in Slots, body \in CategoryRegisterBodies : RegisterCategory(r, body)
  \/ \E r \in Slots, id \in 1..MaxRows : DeleteCategory(r, id)
  \/ \E r \in Slots, body \in ProductBodies : RegisterProduct(r, body)
  \/ \E r \in Slots, id \in 1..MaxRows, body \in ProductBodies :
       UpdateProduct(r, id, body)
  \/ \E r \in Slots : SaveProduct(r)
  \/ \E r \in Slots, id \in 1..MaxRows : GetEntity(r, id)
  \/ \E r \in Slots, id \in 1..MaxRows : DeleteProduct(r, id)

SpecProduct == SetUp({}, {}, <<>>, {}, {}) /\ [][ProductNext]_vars

\* The purchase-order and sale routes, served concurrently.
TradeRoutes ==
  {"register_purchase_order", "get_purchase_order", "update_purchase_order",
   "delete_purchase_order", "add_sale_item", "get_sale_item",
   "update_sale_item", "delete_sale_item", "delete_brand"}

TradeNext ==
  \/ \E r \in Slots : CatalogueArrive(r, TradeRoutes)
  \/ \E r \in Slots, body \in PurchaseOrderBodies : RegisterPurchaseOrder(r, body)
  \/ \E r \in Slots, id \in 1..MaxRows, body \in PurchaseOrderBodies :
       UpdatePurchaseOrder(r, id, body)
  \/ \E r \in Slots, id \in 1..MaxRows : DeletePurchaseOrder(r, id)
  \/ \E r \in Slots, body \in SaleBodies : AddSaleItem(r, body)
  \/ \E r \in Slots, id \in 1..MaxRows, body \in SaleBodies :
       UpdateSaleItem(r, id, body)
  \/ \E r \in Slots, id \in 1..MaxRows : DeleteSaleItem(r, id)
  \/ \E r \in Slots, id \in 1..MaxRows : GetEntity(r, id)
  \/ \E r \in Slots, id \in 1..MaxBrands : DeleteBrand(r, id)

SpecTrade ==
  SetUp({BrandEmz}, {CategoryPan}, <<ProductAmp>>, {}, {}) /\ [][TradeNext]_vars

\* Product registrations, deletions and page requests, served concurrently.
PageNext ==
  \/ \E r \in Slots :
       CatalogueArrive(r, {"register_product", "delete_product",
                           "get_all_products"})
  \/ \E r \in Slots, body \in ProductBodies : RegisterProduct(r, body)
  \/ \E r \in Slots : SaveProduct(r)
  \/ \E r \in Slots, id \in 1..MaxRows : DeleteProduct(r, id)
  \/ \E r \in Slots, page_size \in 0..(MaxRows + 1), page_num \in 0..MaxRows :
       GetAllProducts(r, page_size, page_num)

SpecPage ==
  SetUp({BrandEmz}, {CategoryPan}, <<ProductAmp>>, {}, {}) /\ [][PageNext]_vars

\* Updates of the stored product: of its name and price, of its category.
CrudProductBodies ==
  {b \in ProductBodies :
     /\ b.name \in {Absent, NamePan}
     /\ b.selling_price \in {"absent", "0"}
     /\ b.category_id \in {Absent, Uuid(1)}}

\* Lookups, updates and deletions of the stored brand, category, product,
\* purchase order and sale, served one after the other.
CrudRoutes ==
  {"get_brand", "update_brand", "delete_brand", "get_category",
   "delete_category", "get_product", "update_product", "delete_product",
   "get_purchase_order", "update_purchase_order", "delete_purchase_order",
   "get_sale_item", "update_sale_item", "delete_sale_item"}

CrudNext ==
  \/ \E r \in Slots : NoneInFlight /\ CatalogueArrive(r, CrudRoutes)
  \/ \E r \in Slots, id \in 1..MaxRows : GetEntity(r, id)
  \/ \E r \in Slots, id \in 1..MaxBrands : GetBrand(r, id)
  \/ \E r \in Slots, id \in 1..MaxBrands, body \in BrandUpdateBodies :
       UpdateBrand(r, id, body)
  \/ \E r \in Slots, id \in 1..MaxBrands : DeleteBrand(r, id)
  \/ \E r \in Slots, id \in 1..MaxRows : DeleteCategory(r, id)
  \/ \E r \in Slots, id \in 1..MaxRows, body \in CrudProductBodies :
       UpdateProduct(r, id, body)
  \/ \E r \in Slots : SaveProduct(r)
  \/ \E r \in Slots, id \in 1..MaxRows : DeleteProduct(r, id)
  \/ \E r \in Slots, id \in 1..MaxRows, body \in PurchaseOrderBodies :
       UpdatePurchaseOrder(r, id, body)
  \/ \E r \in Slots, id \in 1..MaxRows : DeletePurchaseOrder(r, id)
  \/ \E r \in Slots, id \in 1..MaxRows, body \in SaleBodies :
       UpdateSaleItem(r, id, body)
  \/ \E r \in Slots, id \in 1..MaxRows : DeleteSaleItem(r, id)

SpecCrud ==
  SetUp({BrandEmz}, {CategoryPan}, <<ProductAmp>>, {OrderEmz}, {SaleAmp})
    /\ [][CrudNext]_vars


\* A second stored brand
BrandFoo == [BrandEmz EXCEPT !.id = 2, !.name = BrandName(<<"f", "o", "o">>)]

\* Links and unlinks of the stored product and brands, and deletions of
\* brands, served concurrently.
LinkNext ==
  \/ \E r \in Slots :
       CatalogueArrive(r, {"add_product_brands", "delete_product_brand",
                           "delete_brand"})
  \/ \E r \in Slots, product_id \in 1..MaxRows, brand_id \in 1..MaxBrands :
       AddProductBrands(r, product_id, brand_id)
  \/ \E r \in Slots, product_id \in 1..MaxRows, brand_id \in 1..MaxBrands :
       DeleteProductBrand(r, product_id, brand_id)
  \/ \E r \in Slots : SaveProductBrands(r)
  \/ \E r \in Slots, id \in 1..MaxBrands : DeleteBrand(r, id)

SpecLink ==
  SetUp({BrandEmz, BrandFoo}, {CategoryPan}, <<ProductAmp>>, {}, {})
    /\ [][LinkNext]_vars
\* Two admins, each logged in, and the rows the tests store.
AdminAmy == [id |-> 2, username |-> Lower(UserAmy), email |-> Lower(EmailA),
             password |-> BcryptHash(PwA), is_admin |-> TRUE]
StampSetUp ==
  /\ employees = {[id |-> 1, username |-> Lower(UserRRo), email |-> Lower(EmailR),
                   password |-> BcryptHash(PwR), is_admin |-> TRUE], AdminAmy}
  /\ sessions = {[id |-> SessionId(1), employee_id |-> 1],
                 [id |-> SessionId(2), employee_id |-> 2]}
  /\ brands = {BrandEmz}
  /\ nextId = [employee |-> 3, token |-> 3, brand |-> 2, category |-> 2,
               product |-> 2, order |-> 1, sale |-> 1]
  /\ nreq = 0
  /\ req = [r \in Slots |-> IdleRequest]
  /\ lastLogin = [e \in 1..MaxEmployees |-> SessionId(e)]
  /\ categories = {CategoryPan}
  /\ products = <<ProductAmp>>
  /\ brand_products = <<>>
  /\ purchase_orders = {}
  /\ sales = {}
  /\ purchase_order_items = {}

\* The routes that create a row
CreateRoutes ==
  {"register_brand", "register_category", "register_product",
   "register_purchase_order", "add_sale_item"}

\* One body each schema accepts, naming the stored rows
StampBrandBody == [name |-> <<"f", "o", "o">>, is_active |-> "absent"]
StampCategoryBody == [name |-> NamePan, description |-> <<"p", "a", "i", "n">>]
StampProductBody ==
  [name |-> NamePan, selling_price |-> "350", category_id |-> Uuid(1)]
StampOrderBody == [status |-> "absent", brand_id |-> Uuid(1)]
StampSaleBody ==
  [product_id |-> Uuid(1), brand_id |-> Uuid(1), quantity |-> "4",
   unit_selling_price |-> "350", total_selling_price |-> "350"]

\* Creations by either admin, served one after the other, and the deletion
\* of an admin once a request has arrived.
StampNext ==
  \/ \E r \in Slots :
       /\ NoneInFlight
       /\ nreq < MaxCatalogueRequests
       /\ \A w \in Slots : Before(w, r) => req[w].pc \notin {"idle", "done"}
       /\ \E route \in CreateRoutes, cookie \in {SessionId(1), SessionId(2)} :
            Gate(r, route, FALSE, cookie)
  \/ \E r \in Slots : RegisterBrand(r, StampBrandBody)
  \/ \E r \in Slots : RegisterCategory(r, StampCategoryBody)
  \/ \E r \in Slots : RegisterProduct(r, StampProductBody)
  \/ \E r \in Slots : SaveProduct(r)
  \/ \E r \in Slots : RegisterPurchaseOrder(r, StampOrderBody)
  \/ \E r \in Slots : AddSaleItem(r, StampSaleBody)
  \/ \E e \in employees : nreq > 0 /\ DeleteEmployee(e)

SpecStamp == StampSetUp /\ [][StampNext]_vars

\* Request paths: the empty path, "/", the excluded paths with and without
\* their trailing slash, paths above and below them, and one with a "*".
SamplePaths ==
  { <<>>, <<"">>, <<"api", "v1">>, <<"api", "v1", "">>,
    <<"api", "v1", "register">>, <<"api", "v1", "register", "">>,
    <<"api", "v1", "register", "x">>, <<"api", "v1", "register", "", "">>,
    <<"api", "v1", "auth_session", "login">>,
    <<"api", "v1", "auth_session", "login", "">>,
    <<"api", "v1", "auth_session", "logout">>, <<"api", "v1", "*", "">> }

\* Exclusion lists: the lists of the application's two entries, an entry
\* without its trailing slash, a prefix of them and a pattern.
SampleExcluded ==
  SUBSET (ExcludedPaths \cup { <<"api", "v1", "register">>, <<"api", "v1", "">>,
                               <<"api", "v1", "*", "">> })

\* auth.require_auth(path, excluded_paths), its arguments and result kept
\* on the worker that made the call
RequireAuth(r, path, excluded_paths) ==
  /\ req' = [req EXCEPT ![r] =
               [IdleRequest EXCEPT
                  !.pc = "done", !.route = "require_auth",
                  !.data = [path |-> path, excluded_paths |-> excluded_paths,
                            required |-> require_auth(path, excluded_paths)]]]
  /\ UNCHANGED <<employees, sessions, brands, nextId, nreq, lastLogin>>
  /\ UNCHANGED catalogue

PathNext ==
  \E path \in SamplePaths, excluded_paths \in SampleExcluded :
    RequireAuth("w1", path, excluded_paths)

SpecPath == Init /\ [][PathNext]_vars

\* Creations and updates of brands and purchase orders, served one after the
\* other, while brands and the admin's account are deleted.
SaveRoutes ==
  {"register_brand", "update_brand", "delete_brand",
   "register_purchase_order", "update_purchase_order"}

SaveNext ==
  \/ \E r \in Slots : NoneInFlight /\ CatalogueArrive(r, SaveRoutes)
  \/ \E r \in Slots, body \in BrandRegisterBodies : RegisterBrand(r, body)
  \/ \E r \in Slots, id \in 1..MaxBrands, body \in BrandUpdateBodies :
       UpdateBrand(r, id, body)
  \/ \E r \in Slots, id \in 1..MaxBrands : DeleteBrand(r, id)
  \/ \E r \in Slots, body \in PurchaseOrderBodies : RegisterPurchaseOrder(r, body)
  \/ \E r \in Slots, id \in 1..MaxRows, body \in PurchaseOrderBodies :
       UpdatePurchaseOrder(r, id, body)
  \/ \E e \in employees : nreq > 0 /\ DeleteEmployee(e)

SpecSave ==
  SetUp({BrandEmz}, {CategoryPan}, <<ProductAmp>>, {OrderEmz}, {})
    /\ [][SaveNext]_vars

\* Deletions of purchase orders and sales, served one after the other, with
\* every outcome of their storage calls.
FaultNext ==
  \/ \E r \in Slots :
       NoneInFlight
         /\ CatalogueArrive(r, {"delete_purchase_order", "delete_sale_item"})
  \/ \E r \in Slots, id \in 1..MaxRows, fault \in StorageFaults :
       DeleteEntityStorage(r, id, fault)

SpecFault ==
  SetUp({BrandEmz}, {CategoryPan}, <<ProductAmp>>,
        {OrderEmz, [OrderEmz EXCEPT !.id = 2]},
        {SaleAmp, [SaleAmp EXCEPT !.id = 2]})
    /\ [][FaultNext]_vars

\* Registration payloads with usernames and passwords at and around each
\* length limit of the two schemas, passwords without an uppercase letter or
\* a digit, padded values, and valid and invalid emails.
SchemaUsernames ==
  {Repeat("u", n) : n \in {RegisterUsernameMin - 1, RegisterUsernameMin,
                           LoginUsernameMax, LoginUsernameMax + 1,
                           RegisterUsernameMax, RegisterUsernameMax + 1}}
    \cup {UserRRo \o <<" ">>}
SchemaPasswords ==
  {PwR \o Repeat("x", n - Len(PwR)) :
     n \in {RegisterPasswordMin, LoginPasswordMax, LoginPasswordMax + 1,
            RegisterPasswordMax, RegisterPasswordMax + 1}}
    \cup {SubSeq(PwR, 1, RegisterPasswordMin - 1),
          Repeat("x", RegisterPasswordMin), Lower(PwR),
          PwR \o Repeat(" ", LoginPasswordMax)}
SchemaBodies ==
  [username : SchemaUsernames, email : {EmailR, EmailA, UserRRo},
   password : SchemaPasswords, is_admin : {FALSE}]

\* validate_request_data(EmployeeRegister) on a payload, and
\* validate_login_request_data on its username and password and on its email
\* and password, the results kept on the worker that made the calls
ValidateCredentials(r, body) ==
  /\ req' = [req EXCEPT ![r] =
               [IdleRequest EXCEPT
                  !.pc = "done", !.route = "validate",
                  !.data =
                    [body |-> body,
                     register |-> EmployeeRegisterValid(body),
                     by_username |->
                       validate_login_request_data(
                         [email |-> Absent, username |-> body.username,
                          password |-> body.password]).ok,
                     by_email |->
                       validate_login_request_data(
                         [email |-> body.email, username |-> Absent,
                          password |-> body.password]).ok]]]
  /\ UNCHANGED <<employees, sessions, brands, nextId, nreq, lastLogin>>
  /\ UNCHANGED catalogue

SchemaNext == \E body \in SchemaBodies : ValidateCredentials("w1", body)

SpecSchema == Init /\ [][SchemaNext]_vars

\* Two purchase orders with one item each
ItemOne == [id |-> 1, purchase_order_id |-> 1, product_id |-> 1, quantity |-> 4]
ItemTwo == [ItemOne EXCEPT !.id = 2, !.purchase_order_id = 2]

ItemSetUp ==
  /\ employees = {[id |-> 1, username |-> Lower(UserRRo), email |-> Lower(EmailR),
                   password |-> BcryptHash(PwR), is_admin |-> TRUE]}
  /\ sessions = {[id |-> SessionId(1), employee_id |-> 1]}
  /\ brands = {BrandEmz}
  /\ nextId = [employee |-> 2, token |-> 2, brand |-> 2, category |-> 2,
               product |-> 2, order |-> 3, sale |-> 1]
  /\ nreq = 0
  /\ req = [r \in Slots |-> IdleRequest]
  /\ lastLogin = [e \in 1..MaxEmployees |->
                    IF e = 1 THEN SessionId(1) ELSE NoCookie]
  /\ categories = {CategoryPan}
  /\ products = <<ProductAmp>>
  /\ brand_products = <<>>
  /\ purchase_orders = {OrderEmz, [OrderEmz EXCEPT !.id = 2]}
  /\ sales = {}
  /\ purchase_order_items = {ItemOne, ItemTwo}

\* Lookups, updates and deletions of order items and deletions of orders,
\* served one after the other.
ItemRoutes ==
  {"get_purchase_item", "update_purchase_order_item",
   "delete_purchase_order_item", "delete_purchase_order"}

ItemNext ==
  \/ \E r \in Slots : NoneInFlight /\ CatalogueArrive(r, ItemRoutes)
  \/ \E r \in Slots, order_id \in 1..MaxRows, order_item_id \in 1..MaxRows :
       GetPurchaseItem(r, order_id, order_item_id)
  \/ \E r \in Slots, order_id \in 1..MaxRows, order_item_id \in 1..MaxRows,
        body \in PurchaseOrderItemBodies :
       UpdatePurchaseOrderItem(r, order_id, order_item_id, body)
  \/ \E r \in Slots, order_id \in 1..MaxRows, order_item_id \in 1..MaxRows :
       DeletePurchaseOrderItem(r, order_id, order_item_id)
  \/ \E r \in Slots, id \in 1..MaxRows : DeletePurchaseOrder(r, id)

SpecItem == ItemSetUp /\ [][ItemNext]_vars

\* Stored employees, and validated data holding an email and a username, one
\* of them or none: values in use, values not in use, and a username that
\* reads like a stored email.
EmailZ == <<"z", "@", "g", ".", "c">>
ExistsEmployees ==
  { [id |-> 1, username |-> Lower(UserRRo), email |-> Lower(EmailR),
     password |-> BcryptHash(PwR), is_admin |-> TRUE],
    AdminAmy,
    [id |-> 3, username |-> UserZed, email |-> EmailZ,
     password |-> BcryptHash(PwA), is_admin |-> FALSE] }
ExistsData ==
  [email : {Absent, Lower(EmailR), EmailA, EmailZ},
   username : {Absent, Lower(UserRRo), UserAmy, UserZed, EmailA}]

ExistsSetUp ==
  /\ employees \in SUBSET ExistsEmployees
  /\ sessions = {}
  /\ brands = {}
  /\ nextId = [employee |-> 4, token |-> 1, brand |-> 1, category |-> 1,
               product |-> 1, order |-> 1, sale |-> 1]
  /\ nreq = 0
  /\ req = [r \in Slots |-> IdleRequest]
  /\ lastLogin = [e \in 1..MaxEmployees |-> NoCookie]
  /\ categories = {}
  /\ products = <<>>
  /\ brand_products = <<>>
  /\ purchase_orders = {}
  /\ sales = {}
  /\ purchase_order_items = {}

\* check_email_username_exists(data), its argument and the status it aborts
\* with (0 when it returns) kept on the worker that made the call
CheckEmailUsernameExists(r, data) ==
  /\ req' = [req EXCEPT ![r] =
               [IdleRequest EXCEPT
                  !.pc = "done", !.route = "check_email_username_exists",
                  !.status = check_email_username_exists(employees, data),
                  !.data = data]]
  /\ UNCHANGED <<employees, sessions, brands, nextId, nreq, lastLogin>>
  /\ UNCHANGED catalogue

ExistsNext == \E data \in ExistsData : CheckEmailUsernameExists("w1", data)

SpecExists == ExistsSetUp /\ [][ExistsNext]_vars

\* Creations, updates and deletions of brands and of purchase orders, the
\* orders' bodies naming a brand or none and no status, served one after
\* the other.
OrderRoutes ==
  {"register_brand", "update_brand", "delete_brand", "register_purchase_order",
   "update_purchase_order", "delete_purchase_order"}
OrderBrandBodies == {b \in PurchaseOrderBodies : b.status = "absent"}

OrderNext ==
  \/ \E r \in Slots : NoneInFlight /\ CatalogueArrive(r, OrderRoutes)
  \/ \E r \in Slots, body \in BrandRegisterBodies : RegisterBrand(r, body)
  \/ \E r \in Slots, id \in 1..MaxBrands, body \in BrandUpdateBodies :
       UpdateBrand(r, id, body)
  \/ \E r \in Slots, id \in 1..MaxBrands : DeleteBrand(r, id)
  \/ \E r \in Slots, body \in OrderBrandBodies : RegisterPurchaseOrder(r, body)
  \/ \E r \in Slots, id \in 1..MaxRows, body \in OrderBrandBodies :
       UpdatePurchaseOrder(r, id, body)
  \/ \E r \in Slots, id \in 1..MaxRows : DeletePurchaseOrder(r, id)

SpecOrder ==
  SetUp({BrandEmz}, {CategoryPan}, <<ProductAmp>>, {OrderEmz}, {})
    /\ [][OrderNext]_vars

\* Logins and logouts of the logged-in manager, served concurrently.
SessionLoginBodies ==
  { [email |-> Absent, username |-> UserRRo, password |-> PwR],
    [email |-> EmailR, username |-> Absent, password |-> PwR],
    [email |-> Absent, username |-> UserRRo, password |-> PwA] }

SessionNext ==
  \/ \E r \in Slots : CatalogueArrive(r, {"login", "logout"})
  \/ \E r \in Slots : Login(r, SessionLoginBodies)
  \/ \E r \in Slots : Logout(r)

SpecSession == SetUp({}, {}, <<>>, {}, {}) /\ [][SessionNext]_vars

\* ------------------------------------------------------------------ claims

Protected(route) == route \notin {"register", "login"}

\* The token resolves to an employee: a session holds it and the owner exists.
Resolves(cookie) ==
  \E x \in sessions : x.id = cookie /\ \E e \in employees : e.id = x.employee_id

\* C1: a request to a path outside the exclusion list that carries no session
\* cookie, or a cookie whose token resolves to no known employee, is answered
\* 401 at the gate: it never reaches a handler and the store is unchanged.
C1_GateRejectsUnauthenticated ==
  [][nreq' # nreq =>
     \A r \in Slots, route \in Routes, slash \in Slashes, cookie \in Cookies :
       ( /\ Protected(route)
         /\ cookie \in {NoCookie, EmptyCookie} \/ ~Resolves(cookie)
         /\ req'[r].route = route
         /\ Gate(r, route, slash, cookie) )
       => /\ req'[r].pc = "done"
          /\ req'[r].status = 401
          /\ req'[r].g = NoEmployee
          /\ store' = store]_vars

\* C1 witness: a request to a protected route was answered 401 while sessions
\* exist.
C1_Witness ==
  \E r \in Slots :
    /\ req[r].pc = "done"
    /\ Protected(req[r].route)
    /\ req[r].status = 401
    /\ sessions # {}

AdminRoutes == {"register_brand", "get_brand", "update_brand", "delete_brand"}

C3_LoginReusesSession ==
  [][\A r \in Slots :
       /\ (LoginReply(r) /\ lastLogin[req[r].employee.id] # NoCookie)
            => /\ req[r].token = lastLogin[req[r].employee.id]
               /\ lastLogin'[req[r].employee.id] = lastLogin[req[r].employee.id]
       /\ (LoginCreateSession(r) /\ req[r].employee.id \in Ids(employees))
            => lastLogin[req[r].employee.id] = NoCookie
       /\ (req[r].route = "login" /\ req[r].employee.id \in DOMAIN lastLogin
             /\ lastLogin[req[r].employee.id] # NoCookie
             /\ req'[r].pc # req[r].pc)
            => sessions' = sessions]_vars

\* C3 witness: a second login is about to reply with the token of the
\* employee's previous login.
C3_Witness ==
  \E r \in Slots :
    /\ req[r].pc = "login_reply"
    /\ lastLogin[req[r].employee.id] # NoCookie
    /\ req[r].token = lastLogin[req[r].employee.id]
    /\ Cardinality(sessions) = 1

\* The tokens minted so far.
Minted == {SessionId(n) : n \in 1..(nextId.token - 1)}

ProtectedRoutes == {route \in Routes : Protected(route)}

\* C4: a logout carrying the token T of a session answers 200 and leaves no
\* session record for T; the gate then answers 401 to T on every route that
\* requires authentication; and a minted token that has no session record
\* never has one again (a later login mints a new token).
C4_LogoutRemovesToken ==
  [][/\ \A r \in Slots :
          (Logout(r) /\ \E s \in sessions : s.id = req[r].cookie)
            => /\ req'[r].status = 200
               /\ ~\E s \in sessions' : s.id = req[r].cookie
               /\ \A route \in ProtectedRoutes :
                    check_authentication(RoutePath(route), req[r].cookie,
                                         sessions', employees').abort = 401
     /\ \A t \in Minted :
          (~\E s \in sessions : s.id = t) => ~\E s \in sessions' : s.id = t]_vars

\* C4 witness: a logout answered 200 and the token it carried has no session.
C4_Witness ==
  \E r \in Slots :
    /\ req[r].pc = "done"
    /\ req[r].route = "logout"
    /\ req[r].status = 200
    /\ Minted # {}
    /\ sessions = {}

\* C5: deleting an employee leaves no session record that references the
\* employee's id, the gate answers 401 on every protected route to each token
\* the employee held, no session ever references an employee that is not in
\* the store, and a minted token that resolves to no employee never resolves
\* to one again.
C5_DeleteCascadesSessions ==
  [][/\ \A e \in employees :
          DeleteEmployee(e)
            => /\ ~\E s \in sessions' : s.employee_id = e.id
               /\ \A s \in sessions :
                    s.employee_id = e.id
                      => \A route \in ProtectedRoutes :
                           check_authentication(RoutePath(route), s.id,
                                                sessions', employees').abort = 401
     /\ \A s \in sessions' : s.employee_id \in Ids(employees')
     /\ \A t \in Minted : ~Resolves(t) => ~Resolves(t)']_vars

\* C5 witness: an employee was deleted while a request its session had
\* authenticated was being served, and no session of its is left.
C5_Witness ==
  \E r \in Slots :
    /\ req[r].pc = "handler"
    /\ req[r].g # NoEmployee
    /\ req[r].g.id \notin Ids(employees)
    /\ ~\E s \in sessions : s.employee_id = req[r].g.id

\* C6: in every reachable state the session store holds at most one session
\* record per employee, and each session token maps to exactly one employee.
C6_OneSessionPerEmployee ==
  \A s, t \in sessions :
    /\ s.employee_id = t.employee_id => s = t
    /\ s.id = t.id => s = t

\* C6: two login requests for the same employee were served concurrently
\* and both replied 201.
C6_Witness ==
  /\ \A r \in Slots :
       req[r].pc = "done" /\ req[r].route = "login" /\ req[r].status = 201
         /\ req[r].raced
  /\ Cardinality(employees) = 1

\* C7: registering a brand whose lower-cased name a stored brand already has
\* answers 409 and leaves the stored brands as they were; registering a name
\* no stored brand has answers 201 and stores the brand; and no state holds
\* two brands with equal names.
C7_DuplicateBrandName ==
  [][/\ \A r \in Slots, body \in BrandRegisterBodies :
          ( /\ req[r].route = "register_brand"
            /\ req'[r].pc # req[r].pc
            /\ req[r].g.is_admin
            /\ req[r].g.id \in Ids(employees)
            /\ Len(Strip(body.name)) >= BrandNameMin
            /\ RegisterBrand(r, body) )
          => IF \E b \in brands : b.name = Lower(Strip(body.name))
             THEN /\ req'[r].status = 409
                  /\ brands' = brands
             ELSE /\ req'[r].status = 201
                  /\ brands \subseteq brands'
                  /\ Cardinality(brands') = Cardinality(brands) + 1
                  /\ \E b \in brands' : b.name = Lower(Strip(body.name))
     /\ \A a, b \in brands' : a.name = b.name => a = b]_vars

\* C7 witness: a registration was answered 409 for a name a stored brand has.
C7_Witness ==
  \E r \in Slots :
    /\ req[r].pc = "done"
    /\ req[r].route = "register_brand"
    /\ req[r].status = 409
    /\ \E b \in brands : b.name = req[r].name

\* Both workers answered a brand registration for the same name, each
\* served while the other was in flight.
RacedRegistrations ==
  /\ \A r \in Slots :
       /\ req[r].pc = "done"
       /\ req[r].route = "register_brand"
       /\ req[r].raced
       /\ req[r].name # Absent
  /\ req["w1"].name = req["w2"].name

\* Exactly one of the two was answered 201 and the other 409, and exactly
\* one brand with their name is stored.
OneWins ==
  /\ {req[r].status : r \in Slots} = {201, 409}
  /\ Cardinality({b \in brands : b.name = req["w1"].name}) = 1

\* C8 as stated: whatever the store held when the two requests arrived.
C8_AsStated == RacedRegistrations => OneWins

\* C8: when two brand registrations with the same name, which no stored
\* brand had when they arrived, were served concurrently, exactly one
\* answered 201 and the other 409, and exactly one brand with that name is
\* stored.
C8_ConcurrentRegistration ==
  (RacedRegistrations /\ \A r \in Slots : req[r].seen = {}) => OneWins

\* C8 witness: two registrations of a name not stored before raced and were
\* both answered.
C8_Witness ==
  /\ RacedRegistrations
  /\ \A r \in Slots : req[r].seen = {}
  /\ brands # {}

\* The login bodies that pass validation.
ValidLoginBodies == {body \in LoginBodies : ValidatedLogin[body].ok}

\* C9: authenticate_employee looks the employee up by the email when one is
\* supplied and by the username only when none is; it answers 404 when no
\* employee matches, 401 when the password does not verify against the
\* matching employee's hash, and otherwise goes on with that employee; no
\* outcome of it changes the sessions.
C9_AuthenticateEmployee ==
  [][\A r \in Slots, body \in ValidLoginBodies :
       ( /\ req[r].route = "login"
         /\ req[r].pc = "handler"
         /\ LoginAuthenticate(r, body) )
       => LET d == ValidatedLogin[body].data
              matches == {e \in employees :
                            IF d.email # Absent THEN e.email = d.email
                            ELSE e.username = d.username}
          IN  /\ sessions' = sessions
              /\ matches = {}
                   => req'[r].pc = "done" /\ req'[r].status = 404
              /\ \A e \in matches :
                   IF e.password = BcryptHash(d.password)
                   THEN req'[r].pc = "login_session" /\ req'[r].employee = e
                   ELSE req'[r].pc = "done" /\ req'[r].status = 401]_vars

\* C9 witness: a login was answered 401 after the lookup and the password
\* comparison.
C9_Witness ==
  \E r \in Slots :
    /\ req[r].pc = "done"
    /\ req[r].route = "login"
    /\ req[r].status = 401
    /\ req[r].ops = {"lookup", "compare"}

\* The payload names neither an email nor a username, or its password has
\* no uppercase letter or no digit.
LoginPayloadIncomplete(body) ==
  \/ ~(Truthy(body.email) \/ Truthy(body.username))
  \/ /\ body.password # Absent
     /\ \/ ~\E i \in 1..Len(body.password) : body.password[i] \in UpperChars
        \/ ~\E i \in 1..Len(body.password) : body.password[i] \in DigitChars

\* The request is answered 400 and no lookup, comparison, session lookup or
\* session creation took place for it.
RejectedUntouched(r) ==
  /\ req'[r].pc = "done"
  /\ req'[r].status = 400
  /\ req'[r].ops = {}
  /\ store' = store

\* The login bodies that fail validation when the password's length is that
\* of the string as sent.
FailingAsSent ==
  {body \in LoginBodies :
     \/ LoginPayloadIncomplete(body)
     \/ body.password # Absent
          /\ (Len(body.password) < 8 \/ Len(body.password) > 64)}

\* The login bodies that fail validation when the password's length is that
\* of the string with its surrounding whitespace stripped.
FailingStripped ==
  {body \in LoginBodies :
     \/ LoginPayloadIncomplete(body)
     \/ body.password # Absent
          /\ (Len(Strip(body.password)) < 8 \/ Len(Strip(body.password)) > 64)}

\* C10 as stated: the password's length is that of the string as sent.
C10_AsStated ==
  [][\A r \in Slots, body \in FailingAsSent :
       (req[r].route = "login" /\ req[r].pc = "handler"
          /\ LoginAuthenticate(r, body))
       => RejectedUntouched(r)]_vars

\* C10: a login request that names neither an email nor a username, or whose
\* password, with the surrounding whitespace stripped, is shorter than 8 or
\* longer than 64 characters or has no uppercase letter or no digit, is
\* answered 400 with no employee lookup, no password comparison and no
\* session lookup or creation.
C10_InvalidLoginRejected ==
  [][\A r \in Slots, body \in FailingStripped :
       (req[r].route = "login" /\ req[r].pc = "handler"
          /\ LoginAuthenticate(r, body))
       => RejectedUntouched(r)]_vars

\* C10 witness: a login was answered 400 with no collaborator called, while
\* an employee it could have matched is stored.
C10_Witness ==
  \E r \in Slots :
    /\ req[r].pc = "done"
    /\ req[r].route = "login"
    /\ req[r].status = 400
    /\ req[r].ops = {}
    /\ employees # {}

\* C11: a PUT whose body supplies none of the schema's fields is answered
\* 400 and leaves the target entity unchanged (here: an admin's PUT of {} on
\* a stored brand).
C11_EmptyUpdateRejected ==
  [][\A r \in Slots, id \in 1..MaxBrands, body \in BrandUpdateBodies :
       ( /\ req[r].route = "update_brand"
         /\ req[r].pc = "handler"
         /\ req[r].g.is_admin
         /\ BrandUpdateSet(body) = {}
         /\ \E b \in brands : b.id = id
         /\ UpdateBrand(r, id, body) )
       => /\ req'[r].status = 400
          /\ brands' = brands]_vars

\* C11: an admin's PUT on a stored brand was answered 200.
C11_Witness ==
  /\ brands # {}
  /\ \E r \in Slots :
       /\ req[r].pc = "done"
       /\ req[r].route = "update_brand"
       /\ req[r].status = 200

\* C12: a registration answered 201 stores the lower-cased forms of the
\* supplied username and email, and a login that supplies a case variant of a
\* stored employee's username, or of its email, with the registered password
\* resolves to that employee.
C12_CaseInsensitiveLogin ==
  [][/\ \A r \in Slots, body \in CaseRegisterBodies :
          ( /\ req[r].route = "register"
            /\ RegisterEmployee(r, body)
            /\ req'[r].status = 201 )
          => \E e \in employees' \ employees :
               /\ e.username = Lower(body.username)
               /\ e.email = Lower(body.email)
     /\ \A r \in Slots, body \in CaseLoginBodies :
          ( /\ req[r].route = "login"
            /\ req[r].pc = "handler"
            /\ LoginAuthenticate(r, body) )
          => \A e \in employees :
               ( /\ e.password = BcryptHash(body.password)
                 /\ \/ body.username # Absent /\ Lower(body.username) = e.username
                    \/ body.email # Absent /\ Lower(body.email) = e.email )
               => /\ req'[r].pc = "login_session"
                  /\ req'[r].employee = e]_vars

\* C12: an employee is registered with a password of 65 characters and a
\* login was answered 400.
C12_Witness ==
  /\ \E e \in employees : e.password = BcryptHash(PwLong)
  /\ \E r \in Slots :
       req[r].pc = "done" /\ req[r].route = "login" /\ req[r].status = 400

\* C13: no two stored employees share a username or an email, every stored
\* username and email is its own lower-cased form, and a registration whose
\* lower-cased username or email a stored employee already has is answered
\* 409 and stores no employee.
C13_EmployeesUnique ==
  [][/\ \A a, b \in employees' :
          (a.username = b.username \/ a.email = b.email) => a = b
     /\ \A e \in employees' :
          e.username = Lower(e.username) /\ e.email = Lower(e.email)
     /\ \A r \in Slots, body \in RegisterBodies :
          ( /\ req[r].route = "register"
            /\ req[r].pc = "handler"
            /\ \E e \in employees :
                 \/ e.username = Lower(Strip(body.username))
                 \/ e.email = Lower(body.email)
            /\ RegisterEmployee(r, body) )
          => /\ req'[r].status = 409
             /\ employees' = employees]_vars

\* C13 witness: a registration was answered 409 while an employee is stored.
C13_Witness ==
  /\ employees # {}
  /\ \E r \in Slots :
       req[r].pc = "done" /\ req[r].route = "register" /\ req[r].status = 409

\* C14: after any sequence of category and product requests every stored
\* product's category_id is null or the id of a stored category; a
\* register_product or update_product by an admin whose body passes the
\* schema and names a category that is not stored answers 404 and stores
\* nothing; and a category deletion answering 200 leaves no product with
\* the deleted id.
C14_CategoryReference ==
  [][ /\ \A p \in Rows(products') :
           p.category_id = 0 \/ p.category_id \in Ids(categories')
      /\ \A r \in Slots :
           ( /\ req[r].pc = "handler"
             /\ req[r].route \in {"register_product", "update_product"}
             /\ req[r].g.is_admin
             /\ req'[r].pc # "handler" )
           => \/ /\ req'[r].pc = "done"
                 /\ req'[r].status = 404
                 /\ catalogue' = catalogue
              \/ \A body \in ProductBodies :
                   ( /\ "category_id" \in ProductSet(body)
                     /\ get_obj_by_text(categories, body.category_id) = {}
                     /\ IF req[r].route = "register_product"
                        THEN ProductRegisterChecked[body]
                        ELSE ProductUpdateChecked[body] )
                   => ~ IF req[r].route = "register_product"
                        THEN RegisterProduct(r, body)
                        ELSE \E id \in 1..MaxRows : UpdateProduct(r, id, body)
      /\ \A r \in Slots, id \in 1..MaxRows :
           ( /\ req[r].pc = "handler"
             /\ req[r].route = "delete_category"
             /\ DeleteCategory(r, id)
             /\ req'[r].status = 200 )
           => /\ id \notin Ids(categories')
              /\ \A p \in Rows(products') : p.category_id # id ]_vars

\* A category that a product pointed at was deleted, and a product request
\* naming an unknown category was answered 404.
C14_Witness ==
  /\ \E p \in Rows(products) : p.category_id = 0
  /\ \E r \in Slots :
       /\ req[r].pc = "done"
       /\ req[r].route = "delete_category"
       /\ req[r].status = 200

\* A numeric field of a body that is zero or negative
NotPositive(v) == v \in Numbers /\ Number(v) <= 0

\* C15: every stored sale has a quantity of at least 1 and strictly
\* positive unit and total prices, every stored product has a strictly
\* positive selling_price, and a sale request by an admin with a zero or
\* negative quantity or price is answered 400 and changes nothing.
C15_PositiveNumbers ==
  [][ /\ \A s \in sales' :
           /\ s.quantity >= 1
           /\ s.unit_selling_price > 0
           /\ s.total_selling_price > 0
      /\ \A p \in Rows(products') : p.selling_price > 0
      /\ \A r \in Slots :
           ( /\ req[r].pc = "handler"
             /\ req[r].route \in {"add_sale_item", "update_sale_item"}
             /\ req[r].g.is_admin
             /\ req'[r].pc # "handler" )
           => \/ /\ req'[r].status = 400
                 /\ catalogue' = catalogue
              \/ \A body \in SaleBodies :
                   ( \/ NotPositive(body.quantity)
                     \/ NotPositive(body.unit_selling_price)
                     \/ NotPositive(body.total_selling_price) )
                   => ~ IF req[r].route = "add_sale_item"
                        THEN AddSaleItem(r, body)
                        ELSE \E id \in 1..MaxRows : UpdateSaleItem(r, id, body)
    ]_vars

\* A sale of quantity 0 was stored by a request answered 201.
C15_Witness ==
  /\ \E s \in sales : s.quantity = 0
  /\ \E r \in Slots :
       /\ req[r].pc = "done"
       /\ req[r].route = "add_sale_item"
       /\ req[r].status = 201

\* The rows of a table at the 0-based positions (page_num - 1) * page_size
\* up to page_num * page_size - 1 that exist, in the table's order
PageOf(table, page_size, page_num) ==
  LET at == {i \in 1..Len(table) :
               /\ i - 1 >= (page_num - 1) * page_size
               /\ i - 1 <= page_num * page_size - 1}
  IN  [k \in 1..Cardinality(at) |-> table[(page_num - 1) * page_size + k]]

\* C16: for page_size >= 1 and page_num >= 1 storage.all returns exactly
\* the rows at the 0-based positions (page_num - 1) * page_size up to
\* page_num * page_size - 1 that exist, at most page_size of them, and the
\* list endpoint, asked by an admin, answers 200 with that slice or 404
\* when it is empty; with page_size <= 0 or page_num <= 0 storage.all
\* raises ValueError and returns no rows.
C16_Pagination ==
  [][ /\ \A page_size \in (0 - 1)..(MaxRows + 1), page_num \in (0 - 1)..MaxRows :
           LET out == all(products, page_size, page_num)
           IN  IF page_size >= 1 /\ page_num >= 1
               THEN /\ out.raised = ""
                    /\ out.rows = PageOf(products, page_size, page_num)
                    /\ Len(out.rows) <= page_size
               ELSE /\ out.raised = "ValueError"
                    /\ out.rows = <<>>
      /\ \A r \in Slots :
           ( /\ req[r].pc = "handler"
             /\ req[r].route = "get_all_products"
             /\ req[r].g.is_admin
             /\ req'[r].pc # "handler" )
           => \A page_size \in 1..(MaxRows + 1), page_num \in 1..MaxRows :
                GetAllProducts(r, page_size, page_num)
                => IF PageOf(products, page_size, page_num) = <<>>
                   THEN req'[r].status = 404
                   ELSE /\ req'[r].status = 200
                        /\ req'[r].data = PageOf(products, page_size, page_num)
    ]_vars

\* The second page of one row each was asked for and served.
C16_Witness ==
  /\ Len(products) >= 2
  /\ \E r \in Slots :
       /\ req[r].pc = "done"
       /\ req[r].route = "get_all_products"
       /\ req[r].status = 200
       /\ req[r].data = <<products[2]>>

\* The ids stored in the table a route of CrudRoutes works on
CrudTable(route) ==
  CASE route \in {"get_brand", "update_brand", "delete_brand"} -> Ids(brands)
    [] route \in {"get_category", "delete_category"} -> Ids(categories)
    [] route \in {"get_product", "update_product", "delete_product"}
         -> Ids(Rows(products))
    [] route \in {"get_purchase_order", "update_purchase_order",
                  "delete_purchase_order"} -> Ids(purchase_orders)
    [] route \in {"get_sale_item", "update_sale_item", "delete_sale_item"}
         -> Ids(sales)

DeleteRoutes ==
  {"delete_brand", "delete_category", "delete_product",
   "delete_purchase_order", "delete_sale_item"}

\* The handler of `route` serves request r for `id`, a PUT with a body its
\* schema accepts.
CrudStep(r, route, id) ==
  CASE route \in {"get_category", "get_product", "get_purchase_order",
                  "get_sale_item"} -> GetEntity(r, id)
    [] route = "get_brand" -> GetBrand(r, id)
    [] route = "update_brand" ->
         \E body \in BrandUpdateBodies :
           BrandUpdateValid(body) /\ UpdateBrand(r, id, body)
    [] route = "delete_brand" -> DeleteBrand(r, id)
    [] route = "delete_category" -> DeleteCategory(r, id)
    [] route = "update_product" ->
         \E body \in CrudProductBodies :
           ProductUpdateChecked[body] /\ UpdateProduct(r, id, body)
    [] route = "delete_product" -> DeleteProduct(r, id)
    [] route = "update_purchase_order" ->
         \E body \in PurchaseOrderBodies :
           PurchaseOrderUpdateValid(body) /\ UpdatePurchaseOrder(r, id, body)
    [] route = "delete_purchase_order" -> DeletePurchaseOrder(r, id)
    [] route = "update_sale_item" ->
         \E body \in SaleBodies :
           SaleUpdateChecked[body] /\ UpdateSaleItem(r, id, body)
    [] route = "delete_sale_item" -> DeleteSaleItem(r, id)

Sent(body) ==
  {f \in DOMAIN body :
     IF f \in {"is_active", "status", "selling_price", "quantity",
               "unit_selling_price", "total_selling_price"}
     THEN body[f] # "absent" ELSE body[f] # Absent}

\* The value stored for a field a body holds
SentValue(body, f) ==
  CASE f = "name" -> Lower(Strip(body[f]))
    [] f = "is_active" -> IsActive(body[f], FALSE)
    [] f = "status" -> body[f]
    [] f \in {"category_id", "brand_id", "product_id"} -> IdOfText[body[f]]
    [] OTHER -> Number(body[f])

\* Table `new` is table `old` with the fields `set` of row `id` taking the
\* values of `row`, and nothing else changed.
UpdatedOnly(old, new, id, set, row) ==
  \E o \in old, n \in new :
    /\ o.id = id
    /\ n.id = id
    /\ \A f \in DOMAIN o : n[f] = IF f \in set THEN row[f] ELSE o[f]
    /\ new \ {n} = old \ {o}

\* The row a body's fields describe
SentRow(body) == [f \in Sent(body) |-> SentValue(body, f)]

\* C18: a PUT answered 200 leaves the target with the fields of its body
\* set to the values sent and every other field as it was, and changes no
\* other row of any table: for brands, purchase orders and sales in the
\* one step of the handler; for products, the handler hands db.save exactly
\* the body's fields and db.save writes exactly those.
C18_UpdateFrame ==
  [][ \A r \in Slots, id \in 1..MaxRows :
        /\ ( /\ req[r].pc = "handler"
             /\ req[r].route = "update_brand"
             /\ req'[r].status = 200 )
           => \A body \in BrandUpdateBodies :
                UpdateBrand(r, id, body)
                => /\ UpdatedOnly(brands, brands', id, Sent(body), SentRow(body))
                   /\ catalogue' = catalogue
                   /\ <<employees, sessions>>' = <<employees, sessions>>
        /\ ( /\ req[r].pc = "handler"
             /\ req[r].route = "update_purchase_order"
             /\ req'[r].status = 200 )
           => \A body \in PurchaseOrderBodies :
                UpdatePurchaseOrder(r, id, body)
                => /\ UpdatedOnly(purchase_orders, purchase_orders', id,
                                  Sent(body), SentRow(body))
                   /\ <<categories, products, brand_products, sales>>'
                        = <<categories, products, brand_products, sales>>
                   /\ store' = store
        /\ ( /\ req[r].pc = "handler"
             /\ req[r].route = "update_sale_item"
             /\ req'[r].status = 200 )
           => \A body \in SaleBodies :
                UpdateSaleItem(r, id, body)
                => /\ UpdatedOnly(sales, sales', id, Sent(body), SentRow(body))
                   /\ <<categories, products, brand_products, purchase_orders>>'
                        = <<categories, products, brand_products, purchase_orders>>
                   /\ store' = store
        /\ ( /\ req[r].pc = "handler"
             /\ req[r].route = "update_product"
             /\ req'[r].pc = "save" )
           => \A body \in CrudProductBodies :
                UpdateProduct(r, id, body)
                => /\ req'[r].data.set = Sent(body)
                   /\ req'[r].data.row.id = id
                   /\ \A f \in Sent(body) :
                        req'[r].data.row[f] = SentValue(body, f)
                   /\ catalogue' = catalogue
                   /\ store' = store
        /\ ( /\ req[r].pc = "save"
             /\ req[r].route = "update_product"
             /\ req[r].data.row.id = id
             /\ req'[r].status = 200 )
           => /\ \/ UpdatedOnly(Rows(products), Rows(products'), id,
                                req[r].data.set, req[r].data.row)
                 \/ req[r].data.set = {} /\ products' = products
              /\ Len(products') = Len(products)
              /\ <<categories, brand_products, purchase_orders, sales>>'
                   = <<categories, brand_products, purchase_orders, sales>>
              /\ store' = store
    ]_vars

\* A PUT of a name alone to the stored product was answered 200: the
\* product has the new name and the price and the category it had.
C18_Witness ==
  /\ \E p \in Rows(products) :
       /\ p.id = ProductAmp.id
       /\ p.name = Lower(NamePan)
       /\ p.selling_price = ProductAmp.selling_price
       /\ p.category_id = ProductAmp.category_id
       /\ p.category_id # 0
  /\ \E r \in Slots :
       /\ req[r].pc = "done"
       /\ req[r].route = "update_product"
       /\ req[r].status = 200

\* C19: a POST /products by an admin with a valid name, a positive
\* selling_price and no category_id is not refused: the handler builds a
\* product with a null category and hands it to db.save, which stores the
\* one new row and answers 201.
C19_ProductWithoutCategory ==
  [][ \A r \in Slots :
        /\ ( /\ req[r].pc = "handler"
             /\ req[r].route = "register_product"
             /\ req[r].g.is_admin
             /\ req'[r].pc = "done" )
           => \A body \in ProductBodies :
                ( /\ StrFieldOk(body.name, CatalogueNameMin, CatalogueNameMax)
                  /\ body.selling_price \in Numbers
                  /\ Number(body.selling_price) > 0
                  /\ body.category_id = Absent )
                => ~RegisterProduct(r, body)
        /\ ( /\ req[r].pc = "save"
             /\ req[r].route = "register_product"
             /\ req[r].data.row.category_id = 0 )
           => /\ req'[r].status = 201
              /\ products' = Append(products, req[r].data.row)
    ]_vars

\* A product registration was answered 400 while no product is stored.
C19_Witness ==
  /\ products = <<>>
  /\ \E r \in Slots :
       /\ req[r].pc = "done"
       /\ req[r].route = "register_product"
       /\ req[r].status = 400

\* The lists of distinct brands of a set
DistinctLists(S) ==
  UNION { {l \in [1..n -> S] : \A i, j \in 1..n : l[i] = l[j] => i = j}
            : n \in 1..Cardinality(S) }

\* A list holds no value twice
NoneTwice(list) == \A i, j \in 1..Len(list) : list[i] = list[j] => i = j

\* An admin's POST of a link, served alone: [status, brand_products]
LinkServed(links, product_id, brand_id) ==
  LET admin == CHOOSE e \in employees : e.is_admin
      out == add_product_brands(products, brands, links, admin, product_id,
                                brand_id)
  IN  IF out.status # 0 THEN [status |-> out.status, brand_products |-> links]
      ELSE CHOOSE o \in save_added_brand(
                          products, brands, links,
                          [product_id |-> product_id, brand_id |-> brand_id,
                           insert |-> out.insert]) : TRUE

\* An admin's DELETE of a link, served alone: [status, brand_products]
UnlinkServed(links, product_id, brand_id) ==
  LET admin == CHOOSE e \in employees : e.is_admin
      out == delete_product_brand(products, brands, links, admin, product_id,
                                  brand_id)
  IN  IF out.status # 0 THEN [status |-> out.status, brand_products |-> links]
      ELSE CHOOSE o \in save_removed_brand(
                          products, links,
                          [product_id |-> product_id, brand_id |-> brand_id]) :
             TRUE

\* Each brand of a list linked in turn: [ok, once, brand_products], ok when
\* every POST was answered 201, once when no link was ever stored twice.
RECURSIVE LinkAll(_, _, _)
LinkAll(links, product_id, list) ==
  IF list = <<>>
  THEN [ok |-> TRUE, once |-> NoneTwice(links), brand_products |-> links]
  ELSE LET out == LinkServed(links, product_id, Head(list))
       IN  IF out.status # 201
           THEN [ok |-> FALSE, once |-> TRUE, brand_products |-> links]
           ELSE LET rest == LinkAll(out.brand_products, product_id, Tail(list))
                IN  [rest EXCEPT !.once = @ /\ NoneTwice(links)]

\* Each brand of a list unlinked in turn: [ok, once, brand_products], ok
\* when every DELETE was answered 200.
RECURSIVE UnlinkAll(_, _, _)
UnlinkAll(links, product_id, list) ==
  IF list = <<>>
  THEN [ok |-> TRUE, once |-> NoneTwice(links), brand_products |-> links]
  ELSE LET out == UnlinkServed(links, product_id, Head(list))
       IN  IF out.status # 200
           THEN [ok |-> FALSE, once |-> TRUE, brand_products |-> links]
           ELSE LET rest == UnlinkAll(out.brand_products, product_id, Tail(list))
                IN  [rest EXCEPT !.once = @ /\ NoneTwice(links)]

\* C20: for a stored product and stored brands, when each brand is linked
\* to the product by one POST answered 201 and each link is then deleted by
\* a DELETE answered 200, the product's brand set is what it was before the
\* first POST, and the link table never holds a link twice.
C20_LinkRoundTrip ==
  \A product_id \in Ids(Rows(products)), list \in DistinctLists(Ids(brands)) :
    LET linked == LinkAll(brand_products, product_id, list)
        unlinked == UnlinkAll(linked.brand_products, product_id, list)
    IN  (linked.ok /\ unlinked.ok)
        => /\ Items(product_brands(unlinked.brand_products, product_id))
                = Items(product_brands(brand_products, product_id))
           /\ linked.once
           /\ unlinked.once

\* A POST for a brand the product was already linked to was answered 201
\* with the brand twice in the list returned, the link table holding the one
\* link it held.
C20_Witness ==
  /\ Len(brand_products) = 1
  /\ \E r \in Slots :
       /\ req[r].pc = "done"
       /\ req[r].route = "add_product_brands"
       /\ req[r].status = 201
       /\ ~NoneTwice(req[r].data)

\* The table a route of CreateRoutes adds a row to
CreatedIn(route, brnds, cats, prods, orders, sold) ==
  CASE route = "register_brand" -> brnds
    [] route = "register_category" -> cats
    [] route = "register_product" -> Rows(prods)
    [] route = "register_purchase_order" -> orders
    [] route = "add_sale_item" -> sold

\* The rows of every table
AllRows(brnds, cats, prods, orders, sold) ==
  [brand : brnds] \cup [category : cats] \cup [product : Rows(prods)]
    \cup [order : orders] \cup [sale : sold]

\* C21: a creation answered 201 stores one new row whose employee_id is the
\* id of the employee the gate resolved the request's token to, and whose
\* added_by is that employee's username; and the employee_id of a stored
\* row never changes but to null, when that employee is deleted.
C21_CreatorStamp ==
  [][ /\ \A r \in Slots :
           ( /\ req[r].pc \in {"handler", "save"}
             /\ req[r].route \in CreateRoutes
             /\ req'[r].pc = "done"
             /\ req'[r].status = 201 )
           => LET old == CreatedIn(req[r].route, brands, categories, products,
                                   purchase_orders, sales)
                  new == CreatedIn(req[r].route, brands', categories',
                                   products', purchase_orders', sales')
              IN  /\ Cardinality(new \ old) = 1
                  /\ \A x \in new \ old :
                       /\ x.employee_id = req[r].g.id
                       /\ added_by(employees', x) = req[r].g.username
      /\ \A y \in AllRows(brands', categories', products', purchase_orders',
                           sales') :
           \A x \in AllRows(brands, categories, products, purchase_orders,
                             sales) :
             (DOMAIN x = DOMAIN y /\ \A k \in DOMAIN x : x[k].id = y[k].id)
             => \A k \in DOMAIN x :
                  y[k].employee_id \in {x[k].employee_id, 0}
    ]_vars

\* Both admins have created a row, each row carrying its creator's id.
C21_Witness ==
  /\ \E o \in purchase_orders : o.employee_id = 2
  /\ \E s \in sales : s.employee_id = 1
  /\ \E r \in Slots :
       /\ req[r].pc = "done"
       /\ req[r].route \in CreateRoutes
       /\ req[r].status = 201

\* A path with "/" appended when it does not end in "/"
WithSlash(path) == IF path[Len(path)] = "" THEN path ELSE path \o <<"">>

\* C22: require_auth(path, excluded_paths) is False exactly when the path
\* and the list are both non-empty and the path, with "/" appended when it
\* does not end in "/", is an element of the list; True otherwise.
C22_RequireAuth ==
  \A r \in Slots :
    req[r].route = "require_auth"
    => LET d == req[r].data
       IN  d.required = ~( /\ d.path # <<>>
                           /\ d.excluded_paths # {}
                           /\ WithSlash(d.path) \in d.excluded_paths )

\* A path under an excluded one was found to require authentication.
C22_Witness ==
  \E r \in Slots :
    /\ req[r].route = "require_auth"
    /\ req[r].data.path = <<"api", "v1", "register", "x">>
    /\ <<"api", "v1", "register", "">> \in req[r].data.excluded_paths
    /\ req[r].data.required

\* The create and update routes, whose handlers end in DatabaseOp.save
SavingRoutes ==
  {"register_brand", "update_brand", "register_category", "register_product",
   "update_product", "register_purchase_order", "update_purchase_order",
   "add_sale_item", "update_sale_item"}

C24_DeleteFailureIs500 ==
  \A r \in Slots :
    (/\ req[r].pc = "done"
     /\ req[r].route \in {"delete_purchase_order", "delete_sale_item"}
     /\ Len(req[r].data) = 2
     /\ req[r].data[2] # "none")
    => req[r].status = 500

\* The deletion of a stored purchase order raised in obj.delete() and was
\* answered 400, the order still stored.
C24_Witness ==
  \E r \in Slots :
    /\ req[r].pc = "done"
    /\ req[r].route = "delete_purchase_order"
    /\ req[r].data = <<1, "delete">>
    /\ req[r].status = 400
    /\ OrderEmz \in purchase_orders

\* C25: a logout request whose cookie carries a token that no session record
\* has is answered 404 and changes no state, whether the record is missing
\* when the request arrives or when its handler runs.
C25_UnmatchedLogoutIs404 ==
  [][\A r \in Slots :
       /\ \A cookie \in Cookies \ {NoCookie, EmptyCookie} :
            (/\ Gate(r, "logout", FALSE, cookie)
             /\ ~\E s \in sessions : s.id = cookie
             /\ req'[r].pc = "done")
            => req'[r].status = 404
       /\ (Logout(r) /\ ~\E s \in sessions : s.id = req[r].cookie)
            => /\ req'[r].status = 404
               /\ store' = store
               /\ lastLogin' = lastLogin]_vars

\* A logout was answered 401 when no session record was left, the only
\* token minted having been logged out.
C25_Witness ==
  \E r \in Slots :
    /\ req[r].pc = "done"
    /\ req[r].route = "logout"
    /\ req[r].status = 401
    /\ nextId.token = 2
    /\ sessions = {}
    /\ \A w \in Slots : req[w].pc \in {"idle", "done"}

\* C26: every payload the registration schema accepts passes login
\* validation when its username and password, or its email and password, are
\* sent to login.
C26_RegisteredCanLogIn ==
  \A r \in Slots :
    (req[r].pc = "done" /\ req[r].route = "validate" /\ req[r].data.register)
      => req[r].data.by_username /\ req[r].data.by_email

\* A payload with a password one character longer than the login schema
\* allows was accepted by registration and rejected by login.
C26_Witness ==
  \E r \in Slots :
    /\ req[r].pc = "done"
    /\ req[r].route = "validate"
    /\ req[r].data.register
    /\ Len(req[r].data.body.password) = LoginPasswordMax + 1
    /\ Len(req[r].data.body.username) = RegisterUsernameMin
    /\ ~req[r].data.by_username
    /\ ~req[r].data.by_email

\* A request for an order item is being answered by its handler.
ItemServed(r) ==
  /\ req[r].pc = "handler"
  /\ req[r].route \in {"get_purchase_item", "update_purchase_order_item",
                        "delete_purchase_order_item"}
  /\ req'[r].pc = "done"

\* C27: GET, PUT and DELETE of an order item under an order it does not
\* belong to fail and leave the items as they were; an item is served,
\* changed or removed only under the order its purchase_order_id names.
C27_ItemOfItsOrder ==
  [][\A r \in Slots :
       ItemServed(r)
       => LET d == req'[r].data
              own == \E i \in purchase_order_items :
                       i.id = d.order_item_id /\ i.purchase_order_id = d.order_id
          IN  /\ (req'[r].status = 200 \/ d.items # {}) => own
              /\ ~own => purchase_order_items' = purchase_order_items]_vars

\* The item of the first order was deleted by a request that named the
\* second order.
C27_Witness ==
  \E r \in Slots :
    /\ req[r].pc = "done"
    /\ req[r].route = "delete_purchase_order_item"
    /\ req[r].status = 200
    /\ req[r].data.order_id = 2
    /\ req[r].data.order_item_id = 1
    /\ purchase_order_items = {ItemTwo}

\* C28: check_email_username_exists aborts 409 when the data holds an email
\* a stored employee has, aborts 409 when the data holds a username a stored
\* employee has, and returns when neither is in use.
C28_EmailOrUsernameInUse ==
  \A r \in Slots :
    (req[r].pc = "done" /\ req[r].route = "check_email_username_exists")
    => LET data == req[r].data
           in_use ==
             \/ data.email # Absent /\ \E e \in employees : e.email = data.email
             \/ /\ data.username # Absent
                /\ \E e \in employees : e.username = data.username
       IN  req[r].status = IF in_use THEN 409 ELSE 0

\* Data with a stored employee's username and an email nobody has passed the
\* check.
C28_Witness ==
  \E r \in Slots :
    /\ req[r].pc = "done"
    /\ req[r].route = "check_email_username_exists"
    /\ req[r].status = 0
    /\ req[r].data.username = UserAmy
    /\ req[r].data.email = EmailZ
    /\ employees = {AdminAmy}

\* A registration or an update of a purchase order with `body` is answered.
OrderSaved(r, body) ==
  \/ /\ PurchaseOrderRegisterValid(body)
     /\ RegisterPurchaseOrder(r, body)
  \/ /\ PurchaseOrderUpdateValid(body)
     /\ \E id \in Ids(purchase_orders) : UpdatePurchaseOrder(r, id, body)

\* C29: every stored purchase order's brand_id is null or the id of a stored
\* brand; and a registration or an update of a purchase order by an admin
\* whose body names a brand that is not stored is answered 404 and leaves
\* the purchase orders as they were.
C29_OrderBrandReference ==
  /\ [](\A o \in purchase_orders : o.brand_id = 0 \/ o.brand_id \in Ids(brands))
  /\ [][\A r \in Slots, body \in OrderBrandBodies :
          (/\ body.brand_id # Absent
           /\ IdOfText[body.brand_id] \notin Ids(brands)
           /\ req[r].g.is_admin
           /\ OrderSaved(r, body))
          => /\ req'[r].status = 404
             /\ purchase_orders' = purchase_orders]_vars

\* The registration of a purchase order for a brand that is not stored was
\* answered 500, the stored order and brand left as they were.
C29_Witness ==
  \E r \in Slots :
    /\ req[r].pc = "done"
    /\ req[r].route = "register_purchase_order"
    /\ req[r].status = 500
    /\ brands = {BrandEmz}
    /\ purchase_orders = {OrderEmz}

\* C30: when a login answers 201, the token it returns is the id of a stored
\* session record of the employee, whatever logouts were served meanwhile.
C30_LoginTokenHasSession ==
  [][\A r \in Slots :
       LoginReply(r)
       => \E s \in sessions :
            s.id = req[r].token /\ s.employee_id = req[r].employee.id]_vars

\* A login answered 201 with the token of the session a logout served
\* meanwhile had deleted.
C30_Witness ==
  /\ \E r \in Slots :
       /\ req[r].pc = "done"
       /\ req[r].route = "login"
       /\ req[r].status = 201
       /\ req[r].raced
  /\ \E r \in Slots :
       req[r].pc = "done" /\ req[r].route = "logout" /\ req[r].status = 200
  /\ lastLogin[1] = SessionId(1)
  /\ sessions = {}

====
